---- MODULE Spec2Model ----
(***************************************************************************)
(* Model of x_v3_local.py: the ffmpeg stream supervisor (stream_start,     *)
(* stream_status, stream_stop over the x_stream.pid / x_stream.json        *)
(* artifacts), the session/cookie resolution of _with_page with the cookie *)
(* filters, and the scrolling harvest of _collect_with_scroll.             *)
(***************************************************************************)
EXTENDS Integers, Sequences, FiniteSets, TLC

\* ------------------------------------------------------------------ bounds
\* The operating system's PID space is 1..MaxPid.
MaxPid == 2
\* Number of liveness polls that fit in the graceful-stop budget
\* (8.0 s at 0.25 s per poll in the source).
MaxPolls == 2

PIDs == 1..MaxPid

\* ------------------------------------------------- persisted file contents
\* Content of a state file: Absent when the file does not exist, a pid when
\* it holds that integer, InvalidText when it holds text that does not parse.
Absent == 0
InvalidText == -1
\* Content of the metadata file when it parses as JSON that is not an object.
NonObject == -2
\* Content of a file that Path.write_text has opened for writing and not yet
\* written: open(path, "w") truncates the file, the text follows in a later
\* write. The empty text parses neither as an integer nor as JSON.
EmptyText == -3

VARIABLES
  procs,     \* the OS process table: PID -> what occupies it
  pidFile,   \* x_stream.pid
  metaFile,  \* x_stream.json, abstracted to its "pid" field
  pc,        \* position of the controlling command (one invocation at a time)
  child,     \* start: pid of the Popen handle held by this invocation, else 0
  stopPid,   \* stop: the pid read from the marker by this invocation, else 0
  polls,     \* stop: liveness polls done since SIGTERM
  signals,   \* signals sent by the current / last stop invocation
  result,    \* what the last finished invocation emitted
  job,       \* pid of the subprocess of the last successful start, 0 once it exited
  last,      \* name of the last step taken
  browserSrc,  \* the installed browser profile: what the cookie source would yield
  cookieFile,  \* x_session_cookies.json
  sess,        \* the automation session of the last session command
  filt,        \* one application of a cookie filter: its path, input and output
  col,         \* one run of _collect_with_scroll
  peer,        \* a second stream invocation running beside the first
  wr,          \* the document a concurrent _save_session_cookies is writing
  run,         \* one invocation of main: what it emitted and its exit code
  act          \* one invocation of an endpoint that acts on the site

sessVars == <<browserSrc, cookieFile, sess>>

\* State of the helper functions exercised on their own and of the second
\* controller.
fnVars == <<filt, col, peer, wr, run, act>>

streamVars == <<procs, pidFile, metaFile, pc, child, stopPid, polls, signals, result, job, last>>

streamVarsButLast == <<procs, pidFile, metaFile, pc, child, stopPid, polls, signals, result, job>>

\* Process table entries.
\*   "free"    no process has the pid (os.kill raises ProcessLookupError)
\*   "ffmpeg"  a live transcoding subprocess launched by stream_start
\*   "zombie"  an exited child not yet reaped by its parent (the pid stays taken
\*             and os.kill(pid, 0) succeeds)
\*   "other"   an unrelated process of the same user (signals are delivered)
\*   "foreign" an unrelated process of another user (os.kill raises PermissionError)

NoResult == [op |-> "none", exit |-> 0, msg |-> "", flag |-> FALSE, pid |-> 0, meta |-> 0]

\* CommandResult as rendered by main(): exit 0 with data, exit 2 for a CliError,
\* exit 4 for any other exception.
Ok(op, flag, pid, meta, msg) ==
  [op |-> op, exit |-> 0, msg |-> msg, flag |-> flag, pid |-> pid, meta |-> meta]

CliError(op, msg, pid) ==
  [op |-> op, exit |-> 2, msg |-> msg, flag |-> FALSE, pid |-> pid, meta |-> 0]

Unexpected(op, msg) ==
  [op |-> op, exit |-> 4, msg |-> msg, flag |-> FALSE, pid |-> 0, meta |-> 0]

\* ---------------------------------------------------------------- helpers
\* Variants of _pid_running: the success and failure results exchanged; the
\* OSError of a missing process not caught as "not running".
PidRunningInverted(pr, pid) ==
  ~(pid \in PIDs /\ pr[pid] \in {"ffmpeg", "zombie", "other"})

PidRunningAlways(pr, pid) == pid \in PIDs

\* _pid_running: os.kill(pid, 0); any OSError (no such process, not permitted)
\* gives False.
PidRunning(pr, pid) ==
  pid \in PIDs /\ pr[pid] \in {"ffmpeg", "zombie", "other"}

\* os.kill(pid, sig) with sig # 0 raises when the pid is free or not ours.
KillRaises(pr, pid) ==
  ~(pid \in PIDs /\ pr[pid] \in {"ffmpeg", "zombie", "other"})

\* json.loads of the metadata file in status: a missing, corrupt or non-object
\* file degrades to the empty object (0).
MetaRead(mf) == IF mf \in PIDs THEN mf ELSE 0

\* A status that needs a well-formed metadata record.
StatusOfMetaRequired(pf, mf, pr) ==
  IF pf = Absent THEN Ok("status", FALSE, 0, 0, "")
  ELSE IF pf \in {InvalidText, EmptyText} THEN Ok("status", FALSE, 0, 0, "Invalid pid file")
  ELSE IF mf \notin PIDs THEN Unexpected("status", "JSONDecodeError")
  ELSE Ok("status", PidRunning(pr, pf), pf, mf, "")

\* _run_stream_status as a function of the persisted files and the process table.
StatusOf(pf, mf, pr) ==
  IF pf = Absent THEN Ok("status", FALSE, 0, 0, "")
  ELSE IF pf \in {InvalidText, EmptyText} THEN Ok("status", FALSE, 0, 0, "Invalid pid file")
  ELSE Ok("status", PidRunning(pr, pf), pf, MetaRead(mf), "")

\* Variant: Popen without start_new_session.
SameSession == FALSE

\* subprocess.Popen(..., start_new_session=True): the child is put in its own
\* session, detached from the controller's process group.
StartNewSession == TRUE

\* What the exit of the controlling process does to the process table: its
\* zombie child is reaped; a child left in the controller's own session would
\* be taken down with it.
ControllerExit(pr, ch) ==
  [p \in PIDs |->
     IF p = ch /\ pr[p] = "zombie" THEN "free"
     ELSE IF p = ch /\ pr[p] = "ffmpeg" /\ ~StartNewSession THEN "free"
     ELSE pr[p]]

\* The ghost job pid after the process table changed.
JobAfter(j, pr) == IF j \in PIDs /\ pr[j] = "ffmpeg" THEN j ELSE 0

\* --------------------------------------------------------------- Init
StreamInit ==
  /\ procs = [p \in PIDs |-> "free"]
  /\ pidFile = Absent
  /\ metaFile = Absent
  /\ pc = "idle"
  /\ child = 0
  /\ stopPid = 0
  /\ polls = 0
  /\ signals = <<>>
  /\ result = NoResult
  /\ job = 0
  /\ last = "Init"

\* ------------------------------------------------------------ stream_status
\* A status that heals: it unlinks a marker whose process is gone.
StreamStatusHealing ==
  /\ pc = "idle"
  /\ result' = StatusOf(pidFile, metaFile, procs)
  /\ IF pidFile \in PIDs /\ ~PidRunning(procs, pidFile)
       THEN pidFile' = Absent /\ metaFile' = Absent
       ELSE UNCHANGED <<pidFile, metaFile>>
  /\ last' = "StreamStatus"
  /\ UNCHANGED <<sessVars, fnVars>>
  /\ UNCHANGED <<procs, pc, child, stopPid, polls, signals, job>>

\* _run_stream_status, lines 1518-1536: it reads the marker, probes the pid
\* and reads the metadata; it writes nothing.
StreamStatus ==
  /\ pc = "idle"
  /\ result' = StatusOf(pidFile, metaFile, procs)
  /\ last' = "StreamStatus"
  /\ UNCHANGED <<sessVars, fnVars>>
  /\ UNCHANGED <<procs, pidFile, metaFile, pc, child, stopPid, polls, signals, job>>

\* ------------------------------------------------------------- stream_start
\* Variants of the checks of _run_stream_start: the status check left out; the
\* marker's existence taken for liveness.
StartRejectionNoStatusCheck(st, ffmpegOk, rtmpOk, inputOk, popenOk) ==
  IF ~ffmpegOk THEN "NoFfmpeg"
  ELSE IF ~rtmpOk THEN "NoRtmpUrl"
  ELSE IF ~inputOk THEN "NoInput"
  ELSE IF ~popenOk THEN "PopenFailed"
  ELSE ""

StartRejectionMarkerOnly(st, ffmpegOk, rtmpOk, inputOk, popenOk) ==
  IF ~ffmpegOk THEN "NoFfmpeg"
  ELSE IF st.pid # 0 THEN "AlreadyRunning"
  ELSE IF ~rtmpOk THEN "NoRtmpUrl"
  ELSE IF ~inputOk THEN "NoInput"
  ELSE IF ~popenOk THEN "PopenFailed"
  ELSE ""

\* Which check of _run_stream_start rejects the call before the launch, "" if
\* none: _ensure_ffmpeg, the status check, _stream_target_url, --input, Popen.
StartRejection(st, ffmpegOk, rtmpOk, inputOk, popenOk) ==
  IF ~ffmpegOk THEN "NoFfmpeg"
  ELSE IF st.flag THEN "AlreadyRunning"
  ELSE IF ~rtmpOk THEN "NoRtmpUrl"
  ELSE IF ~inputOk THEN "NoInput"
  ELSE IF ~popenOk THEN "PopenFailed"
  ELSE ""

\* Lines 1540-1591: the checks and the launch.
StartBegin ==
  /\ pc = "idle"
  /\ \E ffmpegOk \in BOOLEAN, rtmpOk \in BOOLEAN, inputOk \in BOOLEAN, popenOk \in BOOLEAN :
       LET st  == StatusOf(pidFile, metaFile, procs)
           rej == StartRejection(st, ffmpegOk, rtmpOk, inputOk, popenOk)
       IN IF rej # ""
            THEN /\ result' = CliError("start", rej, st.pid)
                 /\ UNCHANGED <<procs, pc, child>>
            ELSE /\ \E p \in PIDs :
                      /\ procs[p] = "free"
                      /\ procs' = [procs EXCEPT ![p] = "ffmpeg"]
                      /\ child' = p
                 /\ pc' = "start_grace"
                 /\ result' = NoResult
  /\ last' = "StartBegin"
  /\ UNCHANGED <<sessVars, fnVars>>
  /\ UNCHANGED <<pidFile, metaFile, stopPid, polls, signals, job>>

\* Variant of lines 1593-1597: the PID marker written before the exit status
\* is sampled.
StartPollMarkerFirst ==
  /\ pc = "start_grace"
  /\ pidFile' = child
  /\ IF procs[child] = "zombie"
       THEN /\ procs' = [procs EXCEPT ![child] = "free"]
            /\ result' = CliError("start", "LaunchFailed", 0)
            /\ pc' = "idle"
            /\ child' = 0
       ELSE /\ pc' = "start_meta"
            /\ UNCHANGED <<procs, result, child>>
  /\ last' = "StartPoll"
  /\ UNCHANGED <<sessVars, fnVars>>
  /\ UNCHANGED <<metaFile, stopPid, polls, signals, job>>

\* Lines 1593-1597: after the grace period, proc.poll(); an exited child is a
\* launch failure, otherwise the PID marker is written.
StartPoll ==
  /\ pc = "start_grace"
  /\ IF procs[child] = "zombie"
       THEN /\ procs' = [procs EXCEPT ![child] = "free"]
            /\ result' = CliError("start", "LaunchFailed", 0)
            /\ pc' = "idle"
            /\ child' = 0
            /\ UNCHANGED <<pidFile>>
       ELSE /\ pidFile' = child
            /\ pc' = "start_meta"
            /\ UNCHANGED <<procs, result, child>>
  /\ last' = "StartPoll"
  /\ UNCHANGED <<sessVars, fnVars>>
  /\ UNCHANGED <<metaFile, stopPid, polls, signals, job>>

\* Lines 1598-1612: the metadata record is written and start returns.
StartWriteMeta ==
  /\ pc = "start_meta"
  /\ metaFile' = child
  /\ result' = Ok("start", TRUE, child, 0, "")
  /\ procs' = ControllerExit(procs, child)
  /\ job' = JobAfter(child, procs')
  /\ pc' = "idle"
  /\ child' = 0
  /\ last' = "StartWriteMeta"
  /\ UNCHANGED <<sessVars, fnVars>>
  /\ UNCHANGED <<pidFile, stopPid, polls, signals>>

\* -------------------------------------------------------------- stream_stop
\* Lines 1616-1623: no marker, or a marker whose process is gone.
StopBegin ==
  /\ pc = "idle"
  /\ signals' = <<>>
  /\ IF pidFile = Absent
       THEN /\ result' = Ok("stop", FALSE, 0, 0, "No running stream.")
            /\ UNCHANGED <<pidFile, metaFile, pc, stopPid>>
       ELSE IF pidFile \in {InvalidText, EmptyText}
         THEN /\ result' = Unexpected("stop", "ValueError")
              /\ UNCHANGED <<pidFile, metaFile, pc, stopPid>>
         ELSE IF ~PidRunning(procs, pidFile)
           THEN /\ pidFile' = Absent
                /\ metaFile' = Absent
                /\ result' = Ok("stop", FALSE, 0, 0, "No running stream process found.")
                /\ UNCHANGED <<pc, stopPid>>
           ELSE /\ stopPid' = pidFile
                /\ pc' = "stop_term"
                /\ result' = NoResult
                /\ UNCHANGED <<pidFile, metaFile>>
  /\ polls' = 0
  /\ last' = "StopBegin"
  /\ UNCHANGED <<sessVars, fnVars>>
  /\ UNCHANGED <<procs, child, job>>

\* Line 1625: os.kill(pid, SIGTERM).
StopTerm ==
  /\ pc = "stop_term"
  /\ IF KillRaises(procs, stopPid)
       THEN /\ result' = Unexpected("stop", "ProcessLookupError")
            /\ pc' = "idle"
            /\ stopPid' = 0
            /\ UNCHANGED signals
       ELSE /\ signals' = Append(signals, [sig |-> "SIGTERM", pid |-> stopPid,
                                           to |-> procs[stopPid], job |-> job = stopPid])
            /\ pc' = "stop_poll"
            /\ UNCHANGED <<result, stopPid>>
  /\ last' = "StopTerm"
  /\ UNCHANGED <<sessVars, fnVars>>
  /\ UNCHANGED <<procs, pidFile, metaFile, child, polls, job>>

\* Variant of lines 1626-1630: a loop that polls for as long as the process
\* is there, whatever time has passed.
StopPollNoBudget ==
  /\ pc = "stop_poll"
  /\ IF PidRunning(procs, stopPid)
       THEN /\ polls' = IF polls < MaxPolls THEN polls + 1 ELSE polls
            /\ UNCHANGED pc
       ELSE /\ pc' = "stop_probe"
            /\ UNCHANGED polls
  /\ last' = "StopPoll"
  /\ UNCHANGED <<sessVars, fnVars>>
  /\ UNCHANGED <<procs, pidFile, metaFile, child, stopPid, signals, result, job>>

\* Lines 1626-1630: poll liveness until the process is gone or the budget is spent.
StopPoll ==
  /\ pc = "stop_poll"
  /\ IF polls < MaxPolls /\ PidRunning(procs, stopPid)
       THEN /\ polls' = polls + 1
            /\ UNCHANGED pc
       ELSE /\ pc' = "stop_probe"
            /\ UNCHANGED polls
  /\ last' = "StopPoll"
  /\ UNCHANGED <<sessVars, fnVars>>
  /\ UNCHANGED <<procs, pidFile, metaFile, child, stopPid, signals, result, job>>

\* Variant of line 1631: the escalation not guarded by the probe.
StopProbeAlwaysKill ==
  /\ pc = "stop_probe"
  /\ pc' = "stop_kill"
  /\ last' = "StopProbe"
  /\ UNCHANGED <<sessVars, fnVars>>
  /\ UNCHANGED <<procs, pidFile, metaFile, child, stopPid, polls, signals, result, job>>

\* Line 1631: the probe that decides the escalation.
StopProbe ==
  /\ pc = "stop_probe"
  /\ pc' = IF PidRunning(procs, stopPid) THEN "stop_kill" ELSE "stop_clear"
  /\ last' = "StopProbe"
  /\ UNCHANGED <<sessVars, fnVars>>
  /\ UNCHANGED <<procs, pidFile, metaFile, child, stopPid, polls, signals, result, job>>

\* Line 1632: os.kill(pid, SIGKILL).
StopKill ==
  /\ pc = "stop_kill"
  /\ IF KillRaises(procs, stopPid)
       THEN /\ result' = Unexpected("stop", "ProcessLookupError")
            /\ pc' = "idle"
            /\ stopPid' = 0
            /\ UNCHANGED <<signals, procs, job>>
       ELSE /\ signals' = Append(signals, [sig |-> "SIGKILL", pid |-> stopPid,
                                           to |-> procs[stopPid], job |-> job = stopPid])
            /\ procs' = [procs EXCEPT ![stopPid] = "free"]
            /\ job' = JobAfter(job, procs')
            /\ pc' = "stop_clear"
            /\ UNCHANGED <<result, stopPid>>
  /\ last' = "StopKill"
  /\ UNCHANGED <<sessVars, fnVars>>
  /\ UNCHANGED <<pidFile, metaFile, child, polls>>

\* Variant of lines 1634-1636: only the PID marker is unlinked.
StopClearMarkerOnly ==
  /\ pc = "stop_clear"
  /\ pidFile' = Absent
  /\ result' = Ok("stop", TRUE, stopPid, 0, "")
  /\ pc' = "idle"
  /\ stopPid' = 0
  /\ last' = "StopClear"
  /\ UNCHANGED <<sessVars, fnVars>>
  /\ UNCHANGED <<procs, metaFile, child, polls, signals, job>>

\* Lines 1634-1636: both artifacts are unlinked and stop returns.
StopClear ==
  /\ pc = "stop_clear"
  /\ pidFile' = Absent
  /\ metaFile' = Absent
  /\ result' = Ok("stop", TRUE, stopPid, 0, "")
  /\ pc' = "idle"
  /\ stopPid' = 0
  /\ last' = "StopClear"
  /\ UNCHANGED <<sessVars, fnVars>>
  /\ UNCHANGED <<procs, child, polls, signals, job>>

\* --------------------------------------------------------- the environment
\* A transcoding subprocess exits by itself (end of input, sink closed, or in
\* answer to SIGTERM). While its parent holds the Popen handle it stays a zombie.
SubprocessExit ==
  /\ \E p \in PIDs :
       /\ procs[p] = "ffmpeg"
       /\ procs' = [procs EXCEPT ![p] = IF p = child THEN "zombie" ELSE "free"]
  /\ job' = JobAfter(job, procs')
  /\ last' = "SubprocessExit"
  /\ UNCHANGED <<sessVars, fnVars>>
  /\ UNCHANGED <<pidFile, metaFile, pc, child, stopPid, polls, signals, result>>

\* The operating system gives a free pid to an unrelated process.
PidReuse ==
  /\ \E p \in PIDs, k \in {"other", "foreign"} :
       /\ procs[p] = "free"
       /\ procs' = [procs EXCEPT ![p] = k]
  /\ last' = "PidReuse"
  /\ UNCHANGED <<sessVars, fnVars>>
  /\ UNCHANGED <<pidFile, metaFile, pc, child, stopPid, polls, signals, result, job>>

\* An unrelated process exits.
OtherExit ==
  /\ \E p \in PIDs :
       /\ procs[p] \in {"other", "foreign"}
       /\ procs' = [procs EXCEPT ![p] = "free"]
  /\ last' = "OtherExit"
  /\ UNCHANGED <<sessVars, fnVars>>
  /\ UNCHANGED <<pidFile, metaFile, pc, child, stopPid, polls, signals, result, job>>

StreamNext ==
  \/ StreamStatus
  \/ StartBegin
  \/ StartPoll
  \/ StartWriteMeta
  \/ StopBegin
  \/ StopTerm
  \/ StopPoll
  \/ StopProbe
  \/ StopKill
  \/ StopClear
  \/ SubprocessExit
  \/ PidReuse
  \/ OtherExit

\* ------------------------------------------- a second, concurrent start
NoPeer == [pc |-> "idle", child |-> 0, result |-> NoResult]

\* Lines 1540-1591 in the second invocation: the checks and the launch.
PeerStartBegin ==
  /\ peer.pc = "idle"
  /\ \E ffmpegOk \in BOOLEAN, rtmpOk \in BOOLEAN, inputOk \in BOOLEAN, popenOk \in BOOLEAN :
       LET st  == StatusOf(pidFile, metaFile, procs)
           rej == StartRejection(st, ffmpegOk, rtmpOk, inputOk, popenOk)
       IN IF rej # ""
            THEN /\ peer' = [pc |-> "done", child |-> 0,
                             result |-> CliError("start", rej, st.pid)]
                 /\ UNCHANGED procs
            ELSE \E p \in PIDs :
                   /\ procs[p] = "free"
                   /\ procs' = [procs EXCEPT ![p] = "ffmpeg"]
                   /\ peer' = [pc |-> "start_grace", child |-> p, result |-> NoResult]
  /\ last' = "PeerStartBegin"
  /\ UNCHANGED <<sessVars, filt, col, wr, run, act>>
  /\ UNCHANGED <<pidFile, metaFile, pc, child, stopPid, polls, signals, result, job>>

\* Lines 1593-1597 in the second invocation.
PeerStartPoll ==
  /\ peer.pc = "start_grace"
  /\ IF procs[peer.child] = "zombie"
       THEN /\ procs' = [procs EXCEPT ![peer.child] = "free"]
            /\ peer' = [pc |-> "done", child |-> 0,
                        result |-> CliError("start", "LaunchFailed", 0)]
            /\ UNCHANGED pidFile
       ELSE /\ pidFile' = peer.child
            /\ peer' = [peer EXCEPT !.pc = "start_meta"]
            /\ UNCHANGED procs
  /\ last' = "PeerStartPoll"
  /\ UNCHANGED <<sessVars, filt, col, wr, run, act>>
  /\ UNCHANGED <<metaFile, pc, child, stopPid, polls, signals, result, job>>

\* Lines 1598-1612 in the second invocation.
PeerStartWriteMeta ==
  /\ peer.pc = "start_meta"
  /\ metaFile' = peer.child
  /\ procs' = ControllerExit(procs, peer.child)
  /\ peer' = [pc |-> "done", child |-> 0,
              result |-> Ok("start", TRUE, peer.child, 0, "")]
  /\ last' = "PeerStartWriteMeta"
  /\ UNCHANGED <<sessVars, filt, col, wr, run, act>>
  /\ UNCHANGED <<pidFile, pc, child, stopPid, polls, signals, result, job>>

\* A transcoding subprocess exits by itself while two invocations run: it
\* stays a zombie while the invocation that launched it holds its handle.
ConcurrentSubprocessExit ==
  /\ \E p \in PIDs :
       /\ procs[p] = "ffmpeg"
       /\ procs' = [procs EXCEPT ![p] = IF p \in {child, peer.child} THEN "zombie"
                                        ELSE "free"]
  /\ job' = JobAfter(job, procs')
  /\ last' = "SubprocessExit"
  /\ UNCHANGED <<sessVars, fnVars>>
  /\ UNCHANGED <<pidFile, metaFile, pc, child, stopPid, polls, signals, result>>

\* ------------------------------- the writes of start, one system call each
\* Lines 1593-1597 up to the open() inside Path.write_text: the grace period,
\* the poll, and the marker opened for writing, which truncates it.
StartPollOpen ==
  /\ pc = "start_grace"
  /\ IF procs[child] = "zombie"
       THEN /\ procs' = [procs EXCEPT ![child] = "free"]
            /\ result' = CliError("start", "LaunchFailed", 0)
            /\ pc' = "idle"
            /\ child' = 0
            /\ UNCHANGED <<pidFile>>
       ELSE /\ pidFile' = EmptyText
            /\ pc' = "start_marker_open"
            /\ UNCHANGED <<procs, result, child>>
  /\ last' = "StartPollOpen"
  /\ UNCHANGED <<sessVars, fnVars>>
  /\ UNCHANGED <<metaFile, stopPid, polls, signals, job>>

\* Line 1597, the write() and close() inside Path.write_text.
StartMarkerWrite ==
  /\ pc = "start_marker_open"
  /\ pidFile' = child
  /\ pc' = "start_meta"
  /\ last' = "StartMarkerWrite"
  /\ UNCHANGED <<sessVars, fnVars>>
  /\ UNCHANGED <<procs, metaFile, child, stopPid, polls, signals, result, job>>

\* Lines 1598-1605 up to the open() inside Path.write_text: the metadata
\* record opened for writing, which truncates it.
StartMetaOpen ==
  /\ pc = "start_meta"
  /\ metaFile' = EmptyText
  /\ pc' = "start_meta_open"
  /\ last' = "StartMetaOpen"
  /\ UNCHANGED <<sessVars, fnVars>>
  /\ UNCHANGED <<procs, pidFile, child, stopPid, polls, signals, result, job>>

\* Lines 1605-1612: the write() and close() of the metadata record, and the
\* return of start.
StartMetaWrite ==
  /\ pc = "start_meta_open"
  /\ metaFile' = child
  /\ result' = Ok("start", TRUE, child, 0, "")
  /\ procs' = ControllerExit(procs, child)
  /\ job' = JobAfter(child, procs')
  /\ pc' = "idle"
  /\ child' = 0
  /\ last' = "StartMetaWrite"
  /\ UNCHANGED <<sessVars, fnVars>>
  /\ UNCHANGED <<pidFile, stopPid, polls, signals>>

\* _run_stream_status in an invocation that runs beside the first.
PeerStatus ==
  /\ peer.pc \in {"idle", "done"}
  /\ peer' = [pc |-> "done", child |-> 0, result |-> StatusOf(pidFile, metaFile, procs)]
  /\ last' = "PeerStatus"
  /\ UNCHANGED <<sessVars, filt, col, wr, run, act>>
  /\ UNCHANGED <<procs, pidFile, metaFile, pc, child, stopPid, polls, signals, result, job>>

\* =========================================================== the session
\* Bound on the number of cookies the browser profile holds.
MaxJar == 1

\* A domain is a sequence of text fragments, so that "host in domain" is a
\* contiguous-subsequence test, as Python's substring test is.
X_HOSTS == { <<"x", ".com">>, <<"twitter", ".com">> }

Contains(text, part) ==
  \E i \in 1..(Len(text) - Len(part) + 1) : SubSeq(text, i, i + Len(part) - 1) = part

HostInDomain(domain) == \E host \in X_HOSTS : Contains(domain, host)

Cookie(domain, name, value, path) ==
  [domain |-> domain, name |-> name, value |-> value, path |-> path]

\* The cookies of the model: two values of the same (domain, name, path) key, a
\* twitter.com cookie the browser stores without a path, a third-party cookie
\* and a cookie with an empty value.
CookieUniverse ==
  { Cookie(<<".", "x", ".com">>, "auth_token", "v1", "/"),
    Cookie(<<".", "x", ".com">>, "auth_token", "v2", "/"),
    Cookie(<<".", "twitter", ".com">>, "ct0", "t", ""),
    Cookie(<<"ads", ".org">>, "sid", "s", "/"),
    Cookie(<<"x", ".com">>, "twid", "", "/") }

RECURSIVE SeqsUpTo(_, _)
SeqsUpTo(S, n) ==
  IF n = 0 THEN { <<>> }
  ELSE LET shorter == SeqsUpTo(S, n - 1)
       IN shorter \cup { Append(q, x) : q \in shorter, x \in S }

\* What the cookie source finds: "ok" with the profile's jar, "no_db" when the
\* configured profile path holds no Cookies database, "load_fail" when the
\* loader raises.
BrowserSources ==
  { [status |-> st, jar |-> j] : st \in {"ok"}, j \in SeqsUpTo(CookieUniverse, MaxJar) }
    \cup { [status |-> st, jar |-> <<>>] : st \in {"no_db", "load_fail"} }

\* A cookie source that reports a profile without a database as a profile
\* without cookies.
LoadXCookiesUnresolvedAsEmpty(src) ==
  IF src.status = "load_fail" THEN [cookies |-> <<>>, err |-> "LoadFailed"]
  ELSE LET kept == SelectSeq(src.jar, LAMBDA c :
                     HostInDomain(c.domain) /\ c.name # "" /\ c.value # "")
       IN IF kept = <<>> THEN [cookies |-> <<>>, err |-> "NoCookies"]
          ELSE [cookies |-> kept, err |-> ""]

\* _load_x_cookies, lines 267-291: the filter and the conversion of each
\* retained cookie (a missing path becomes "/"); "" in err when it returns.
LoadXCookies(src) ==
  IF src.status = "no_db" THEN [cookies |-> <<>>, err |-> "ProfileResolution"]
  ELSE IF src.status = "load_fail" THEN [cookies |-> <<>>, err |-> "LoadFailed"]
  ELSE LET kept == SelectSeq(src.jar, LAMBDA c :
                     HostInDomain(c.domain) /\ c.name # "" /\ c.value # "")
           out  == [i \in 1..Len(kept) |->
                     Cookie(kept[i].domain, kept[i].name, kept[i].value,
                            IF kept[i].path = "" THEN "/" ELSE kept[i].path)]
       IN IF out = <<>> THEN [cookies |-> <<>>, err |-> "NoCookies"]
          ELSE [cookies |-> out, err |-> ""]

\* A load of the saved document that does not look at the value.
LoadSavedIgnoringValue(file) ==
  IF file.kind # "list" THEN <<>>
  ELSE SelectSeq(file.items, LAMBDA c : ~(c.name = "" \/ ~HostInDomain(c.domain)))

\* _load_saved_session_cookies: a missing, unparsable or non-list document is
\* the empty list; the items are filtered.
LoadSavedSessionCookies(file) ==
  IF file.kind # "list" THEN <<>>
  ELSE SelectSeq(file.items, LAMBDA c :
         ~(c.name = "" \/ c.value = "" \/ ~HostInDomain(c.domain)))

\* A save that writes the whole live jar.
SaveSessionCookiesUnfiltered(jar) == [kind |-> "list", items |-> jar]

\* _save_session_cookies: the document written for a live jar.
SaveSessionCookies(jar) ==
  [kind |-> "list",
   items |-> SelectSeq(jar, LAMBDA c :
               HostInDomain(c.domain) /\ c.name # "" /\ c.value # "")]

\* _merge_cookie_sets: a dict keyed by (domain, name, path) filled from
\* secondary + primary; a key keeps the position of its first insertion and
\* the value of its last.
CookieKey(c) == <<c.domain, c.name, IF c.path = "" THEN "/" ELSE c.path>>

RECURSIVE MergeInto(_, _)
MergeInto(acc, rest) ==
  IF rest = <<>> THEN acc
  ELSE LET src == Head(rest)
           hit == { i \in 1..Len(acc) : CookieKey(acc[i]) = CookieKey(src) }
       IN IF src.domain = <<>> \/ src.name = ""
            THEN MergeInto(acc, Tail(rest))
            ELSE IF hit = {}
              THEN MergeInto(Append(acc, src), Tail(rest))
              ELSE MergeInto([i \in 1..Len(acc) |-> IF i \in hit THEN src ELSE acc[i]],
                             Tail(rest))

\* A merge in which the secondary records are the authoritative ones.
MergeCookieSetsSecondaryWins(primary, secondary) == MergeInto(<<>>, primary \o secondary)

\* _merge_cookie_sets, lines 130-140.
MergeCookieSets(primary, secondary) == MergeInto(<<>>, secondary \o primary)

\* _with_page, lines 766-770: which cookie set backs the session.
SelectCookiesMerged(browser_cookies, saved_cookies) ==
  MergeCookieSets(browser_cookies, saved_cookies)

SelectCookies(browser_cookies, saved_cookies) ==
  IF browser_cookies # <<>> THEN browser_cookies ELSE saved_cookies

\* A resolution that launches the browser whatever it found.
WithPageAlwaysOpens(src, file, require_session, allow_browser_cookies, allow_saved_session) ==
  LET loaded  == IF allow_browser_cookies THEN LoadXCookies(src)
                 ELSE [cookies |-> <<>>, err |-> ""]
      saved   == IF allow_saved_session THEN LoadSavedSessionCookies(file) ELSE <<>>
  IN [opened |-> TRUE, cookies |-> SelectCookies(loaded.cookies, saved), err |-> ""]

\* _with_page, lines 753-782: the cookies of the new session, or the error
\* raised before any browser is launched.
WithPage(src, file, require_session, allow_browser_cookies, allow_saved_session) ==
  LET loaded  == IF allow_browser_cookies THEN LoadXCookies(src)
                 ELSE [cookies |-> <<>>, err |-> ""]
      saved   == IF allow_saved_session THEN LoadSavedSessionCookies(file) ELSE <<>>
      cookies == SelectCookies(loaded.cookies, saved)
  IN IF require_session /\ cookies = <<>>
       THEN [opened |-> FALSE, cookies |-> <<>>,
             err |-> IF loaded.err # "" THEN loaded.err ELSE "NoSession"]
       ELSE [opened |-> TRUE, cookies |-> cookies, err |-> ""]

NoSess ==
  [cmd |-> "none", refresh |-> FALSE, opened |-> FALSE, cookies |-> <<>>,
   jar |-> <<>>, err |-> "", logged_in |-> FALSE, saved |-> 0]

SessInit ==
  /\ browserSrc = [status |-> "ok", jar |-> <<>>]
  /\ cookieFile = [kind |-> "absent", items |-> <<>>]
  /\ sess = NoSess

\* _is_logged_in, lines 686-703: a login URL means logged out; a visible marker
\* means logged in; otherwise the x.com cookie names decide.
IsLoggedIn(jar, onLoginUrl, markerVisible) ==
  IF onLoginUrl THEN FALSE
  ELSE IF markerVisible THEN TRUE
  ELSE LET names == { jar[i].name : i \in { k \in 1..Len(jar) :
                                              Contains(jar[k].domain, <<"x", ".com">>) } }
       IN "auth_token" \in names /\ ("ct0" \in names \/ "twid" \in names)

\* The browser context's jar holds one cookie per (domain, name, path): a cookie
\* set by the site replaces the one with its key, else it is added at the end.
RECURSIVE JarSet(_, _)
JarSet(jar, set) ==
  IF set = <<>> THEN jar
  ELSE LET c   == Head(set)
           hit == { i \in 1..Len(jar) : CookieKey(jar[i]) = CookieKey(c) }
       IN JarSet(IF hit = {} THEN Append(jar, c)
                 ELSE [i \in 1..Len(jar) |-> IF i \in hit THEN c ELSE jar[i]],
                 Tail(set))

\* Cookies the site sets while a login flow is accepted.
FlowCookies ==
  { << Cookie(<<".", "x", ".com">>, "auth_token", "v2", "/") >>,
    << Cookie(<<".", "x", ".com">>, "auth_token", "v2", "/"),
       Cookie(<<"ads", ".org">>, "sid", "s", "/") >> }

\* Any endpoint that needs a session (_with_page with its defaults).
SessionCommand ==
  /\ pc = "idle"
  /\ LET wp == WithPage(browserSrc, cookieFile, TRUE, TRUE, TRUE)
     IN sess' = [cmd |-> "run", refresh |-> FALSE, opened |-> wp.opened,
                 cookies |-> wp.cookies, jar |-> wp.cookies, err |-> wp.err,
                 logged_in |-> FALSE, saved |-> 0]
  /\ last' = "SessionCommand"
  /\ UNCHANGED <<browserSrc, cookieFile>>
  /\ UNCHANGED <<streamVarsButLast, fnVars>>

\* _save_session_cookies as called by the login: the document afterwards and
\* the count it returns; when context.cookies() raises nothing is written.
SavedBy(jar, jarReadOk, file) ==
  IF jarReadOk
    THEN [file |-> SaveSessionCookies(jar), n |-> Len(SaveSessionCookies(jar).items)]
    ELSE [file |-> file, n |-> 0]

\* A login that saves the jar whether or not it ended logged in.
SaveAlways(logged_in, jar, jarReadOk, file) == SavedBy(jar, jarReadOk, file)

\* _run_user_login_v3, lines 841 and 863:
\* saved = _save_session_cookies(context) if logged_in else 0.
SaveIfLoggedIn(logged_in, jar, jarReadOk, file) ==
  IF logged_in THEN SavedBy(jar, jarReadOk, file) ELSE [file |-> file, n |-> 0]

\* _attempt_flow_login and what follows it, lines 839-846 and 861-866.
\* flow: "no_input" (CliError), "pending" (challenge), "rejected", or
\* "accepted" with the cookies the site set.
FlowLogin(base, jar) ==
  \E flow \in {"no_input", "pending", "rejected", "accepted"} :
    IF flow = "no_input"
      THEN /\ sess' = [base EXCEPT !.err = "LoginInputNotFound"]
           /\ UNCHANGED cookieFile
      ELSE \E set \in IF flow = "accepted" THEN FlowCookies ELSE { <<>> },
              jarReadOk \in IF flow = "accepted" THEN BOOLEAN ELSE { TRUE } :
             LET after == JarSet(jar, set)
                 sv    == SaveIfLoggedIn(flow = "accepted", after, jarReadOk, cookieFile)
             IN /\ cookieFile' = sv.file
                /\ sess' = [base EXCEPT !.jar = after,
                                        !.logged_in = (flow = "accepted"),
                                        !.saved = sv.n,
                                        !.err = IF flow = "pending"
                                                  THEN "pending_verification" ELSE ""]

\* A login that reads both sources whether or not it refreshes.
LoginSourcesAlways(refresh) == [browser |-> TRUE, saved |-> TRUE]

\* _run_user_login_v3, lines 829-834: the sources the login lets _with_page read.
LoginSources(refresh) == [browser |-> ~refresh, saved |-> ~refresh]

\* _run_user_login_v3, lines 824-870.
UserLogin ==
  /\ pc = "idle"
  /\ \E refresh \in BOOLEAN, creds \in BOOLEAN :
       LET wp   == WithPage(browserSrc, cookieFile, FALSE,
                            LoginSources(refresh).browser, LoginSources(refresh).saved)
           base == [cmd |-> "login", refresh |-> refresh, opened |-> TRUE,
                    cookies |-> wp.cookies, jar |-> wp.cookies, err |-> "",
                    logged_in |-> FALSE, saved |-> 0]
       IN IF refresh
            THEN IF ~creds
                   THEN /\ sess' = [base EXCEPT !.err = "RefreshNeedsCredentials"]
                        /\ UNCHANGED cookieFile
                   ELSE FlowLogin(base, wp.cookies)
            ELSE \E page \in {"login_url", "marker", "plain"} :
                   IF IsLoggedIn(wp.cookies, page = "login_url", page = "marker")
                     THEN \E jarReadOk \in BOOLEAN :
                            LET sv == SavedBy(wp.cookies, jarReadOk, cookieFile)
                            IN /\ cookieFile' = sv.file
                               /\ sess' = [base EXCEPT !.logged_in = TRUE, !.saved = sv.n]
                     ELSE IF ~creds
                       THEN /\ sess' = [base EXCEPT !.err = "needs_credentials"]
                            /\ UNCHANGED cookieFile
                       ELSE FlowLogin(base, wp.cookies)
  /\ last' = "UserLogin"
  /\ UNCHANGED browserSrc
  /\ UNCHANGED <<streamVarsButLast, fnVars>>

\* The operator's own browser gains or loses cookies, or the configured
\* profile stops resolving.
BrowserProfileChange ==
  /\ \E src \in BrowserSources :
       /\ src # browserSrc
       /\ browserSrc' = src
  /\ last' = "BrowserProfileChange"
  /\ UNCHANGED <<cookieFile, sess>>
  /\ UNCHANGED <<streamVarsButLast, fnVars>>

\* ======================================================= the cookie filters
\* Bound on the number of candidate records handed to a filter.
MaxCand == 2

\* Candidate records: the cookies of the model, one with an empty name and one
\* whose domain holds a target hostname inside a longer name.
FilterUniverse ==
  CookieUniverse \cup
    { Cookie(<<"x", ".com">>, "", "n", "/"),
      Cookie(<<"netfli", "x", ".com">>, "nfvdid", "w", "/") }

NoFilt == [path |-> "none", cand |-> <<>>, secondary |-> <<>>, kept |-> <<>>]

\* _load_x_cookies, lines 267-287, over the jar the loader returned.
FilterBrowser ==
  /\ filt.path = "none"
  /\ filt' = [filt EXCEPT !.path = "browser",
                          !.kept = LoadXCookies([status |-> "ok", jar |-> filt.cand]).cookies]
  /\ last' = "FilterBrowser"
  /\ UNCHANGED <<streamVarsButLast, sessVars, col, peer, wr, run, act>>

\* _load_saved_session_cookies over a document that holds the candidates.
FilterSaved ==
  /\ filt.path = "none"
  /\ filt' = [filt EXCEPT !.path = "saved",
                          !.kept = LoadSavedSessionCookies([kind |-> "list",
                                                            items |-> filt.cand])]
  /\ last' = "FilterSaved"
  /\ UNCHANGED <<streamVarsButLast, sessVars, col, peer, wr, run, act>>

\* _save_session_cookies over a live jar that holds the candidates.
FilterSave ==
  /\ filt.path = "none"
  /\ filt' = [filt EXCEPT !.path = "save",
                          !.kept = SaveSessionCookies(filt.cand).items]
  /\ last' = "FilterSave"
  /\ UNCHANGED <<streamVarsButLast, sessVars, col, peer, wr, run, act>>

\* ------------------------- the write of the saved session, one call each
\* No save is in progress.
NoWrite == [phase |-> "none", doc |-> [kind |-> "absent", items |-> <<>>]]

\* The saved-session file between the open() and the write() of
\* Path.write_text: it exists and holds the empty text, which is not JSON.
EmptyDocument == [kind |-> "empty", items |-> <<>>]

\* _save_session_cookies of a login running in another invocation, lines
\* 107-126 up to the open() inside Path.write_text: the document is computed
\* from the live jar and the file is truncated.
SaveOpen ==
  /\ wr.phase = "none"
  /\ \E jar \in SeqsUpTo(CookieUniverse, MaxJar) :
       wr' = [phase |-> "open", doc |-> SaveSessionCookies(jar)]
  /\ cookieFile' = EmptyDocument
  /\ last' = "SaveOpen"
  /\ UNCHANGED <<streamVarsButLast, browserSrc, sess, filt, col, peer, run, act>>

\* Line 126, the write() and close() inside Path.write_text.
SaveWrite ==
  /\ wr.phase = "open"
  /\ cookieFile' = wr.doc
  /\ wr' = NoWrite
  /\ last' = "SaveWrite"
  /\ UNCHANGED <<streamVarsButLast, browserSrc, sess, filt, col, peer, run, act>>

\* The records given to the merge: two values under one key, a record without
\* a path and one with the path "/" under one key, a record without a domain
\* and one without a name.
MergeUniverse ==
  { Cookie(<<".", "x", ".com">>, "auth_token", "v1", "/"),
    Cookie(<<".", "x", ".com">>, "auth_token", "v2", "/"),
    Cookie(<<".", "twitter", ".com">>, "ct0", "t1", ""),
    Cookie(<<".", "twitter", ".com">>, "ct0", "t2", "/"),
    Cookie(<<>>, "sid", "s", "/"),
    Cookie(<<"x", ".com">>, "", "n", "/") }

\* _merge_cookie_sets over a primary list (cand) and a secondary list.
FilterMerge ==
  /\ filt.path = "none"
  /\ filt' = [filt EXCEPT !.path = "merge",
                          !.kept = MergeCookieSets(filt.cand, filt.secondary)]
  /\ last' = "FilterMerge"
  /\ UNCHANGED <<streamVarsButLast, sessVars, col, peer, wr, run, act>>

\* ============================================================== the harvest
\* Largest limit an endpoint passes (the endpoints clamp it to 1..200 and more).
MaxLimit == 4
\* Largest max_scrolls an endpoint passes (6 to 20 in the source).
MaxScrolls == 3
\* Largest number of new rows a growing page shows per cycle.
MaxK == 2

Row(key, payload) == [key |-> key, payload |-> payload]

\* _collect_with_scroll, line 674: str(row.get("key") or ""), for a row whose
\* key, when it has one, is text.
KeyOf(row) == IF "key" \in DOMAIN row THEN row.key ELSE ""

\* What an extractor can return for one view of the page: nothing, rows with
\* new keys, a key seen before with another payload (in the same view or a
\* later one), a row with an empty key and a row without a key.
Views ==
  { <<>>,
    << Row("a", 1) >>,
    << Row("a", 1), Row("b", 1) >>,
    << Row("b", 1), Row("a", 2) >>,
    << Row("a", 1), Row("a", 2) >>,
    << Row("", 1), Row("c", 1) >>,
    << [payload |-> 3], Row("b", 1) >>,
    << Row("c", 1), Row("d", 1), Row("a", 2) >> }

\* The page under the extractor: "dynamic" shows any view at each cycle,
\* "static" shows the same view at every cycle, "growing" shows k rows with
\* new keys at every cycle.
Pages ==
  { [kind |-> "dynamic", view |-> <<>>, k |-> 0] }
    \cup { [kind |-> "static", view |-> v, k |-> 0] : v \in Views }
    \cup { [kind |-> "growing", view |-> <<>>, k |-> k] : k \in 1..MaxK }

\* The rows numbered from..to of a growing page.
FreshRows(from, to) == [i \in 1..(to - from + 1) |-> Row(ToString(from + i - 1), 1)]

\* extractor(page), line 672, at the given cycle (counted from 1): a growing
\* page shows its new rows alone or after the rows it showed before.
ExtractorRows(page, cycle) ==
  CASE page.kind = "static"  -> { page.view }
    [] page.kind = "growing" -> { FreshRows((cycle - 1) * page.k + 1, cycle * page.k),
                                  FreshRows(1, cycle * page.k) }
    [] OTHER                 -> Views

NoCollect ==
  [pc |-> "idle", page |-> [kind |-> "dynamic", view |-> <<>>, k |-> 0],
   limit |-> 0, max_scrolls |-> 0, cycles |-> 0, scrolls |-> 0,
   seen |-> <<>>, observed |-> <<>>, out |-> <<>>, again |-> FALSE, prev |-> <<>>]

Min(a, b) == IF a < b THEN a ELSE b

\* An insertion loop in which a later row replaces the one stored for its key.
RECURSIVE SeenAfterOverwriting(_, _)
SeenAfterOverwriting(seen, rows) ==
  IF rows = <<>> THEN seen
  ELSE LET row == Head(rows)
           hit == { i \in 1..Len(seen) : KeyOf(seen[i]) = KeyOf(row) }
       IN IF KeyOf(row) = "" THEN SeenAfterOverwriting(seen, Tail(rows))
          ELSE IF hit # {}
            THEN SeenAfterOverwriting([i \in 1..Len(seen) |->
                                         IF i \in hit THEN row ELSE seen[i]], Tail(rows))
            ELSE SeenAfterOverwriting(Append(seen, row), Tail(rows))

\* An insertion loop that stores the rows without a key as well, all under
\* the empty key.
RECURSIVE SeenAfterKeepingKeyless(_, _)
SeenAfterKeepingKeyless(seen, rows) ==
  IF rows = <<>> THEN seen
  ELSE LET row == Head(rows)
       IN IF \E i \in 1..Len(seen) : KeyOf(seen[i]) = KeyOf(row)
            THEN SeenAfterKeepingKeyless(seen, Tail(rows))
            ELSE SeenAfterKeepingKeyless(Append(seen, row), Tail(rows))

\* _collect_with_scroll, lines 673-678: the dict seen (in insertion order)
\* after the rows of one extraction.
RECURSIVE SeenAfter(_, _)
SeenAfter(seen, rows) ==
  IF rows = <<>> THEN seen
  ELSE LET row == Head(rows)
       IN IF KeyOf(row) = "" THEN SeenAfter(seen, Tail(rows))
          ELSE IF \E i \in 1..Len(seen) : KeyOf(seen[i]) = KeyOf(row)
            THEN SeenAfter(seen, Tail(rows))
            ELSE SeenAfter(Append(seen, row), Tail(rows))

\* A limit test that never ends the loop.
LimitNeverReached(seen, limit) == FALSE

\* A limit test that lets the loop go on when the limit is exactly met.
LimitReachedStrictly(seen, limit) == Len(seen) > limit

\* _collect_with_scroll, line 679.
LimitReached(seen, limit) == Len(seen) >= limit

\* A return that hands back nothing when fewer rows than limit were found.
TruncatedOrNothing(seen, limit) == IF Len(seen) < limit THEN <<>> ELSE SubSeq(seen, 1, limit)

\* A return that hands back every accumulated row.
NotTruncated(seen, limit) == seen

\* _collect_with_scroll, line 683: list(seen.values())[:limit], limit >= 1.
Truncated(seen, limit) == SubSeq(seen, 1, Min(limit, Len(seen)))

\* A call that goes on with the mapping of the call before it.
SeenCarried(seen) == seen

\* _collect_with_scroll, line 670: seen = {} at the start of every call.
SeenAtStart(seen) == <<>>

\* An endpoint calls _collect_with_scroll with its clamped limit and its
\* max_scrolls, over some page.
CollectStart ==
  /\ col.pc = "idle"
  /\ \E limit \in 1..MaxLimit, max_scrolls \in 1..MaxScrolls, page \in Pages :
       col' = [NoCollect EXCEPT !.pc = "loop", !.page = page, !.limit = limit,
                                !.max_scrolls = max_scrolls,
                                !.seen = SeenAtStart(col.seen)]
  /\ last' = "CollectStart"
  /\ UNCHANGED <<streamVarsButLast, sessVars, filt, peer, wr, run, act>>

\* The same call made once more over the same page: prev keeps what the call
\* before it returned.
CollectAgain ==
  /\ col.pc = "done"
  /\ col' = [col EXCEPT !.pc = "loop", !.cycles = 0, !.scrolls = 0,
                        !.seen = SeenAtStart(col.seen), !.observed = <<>>,
                        !.out = <<>>, !.again = TRUE, !.prev = col.out]
  /\ last' = "CollectAgain"
  /\ UNCHANGED <<streamVarsButLast, sessVars, filt, peer, wr, run, act>>

\* One iteration of the loop, lines 671-682, and the return of line 683 when
\* it was the last: the extraction, the insertions, the limit test, and the
\* scroll and the pause when the test fails.
CollectCycle ==
  /\ col.pc = "loop"
  /\ \E rows \in ExtractorRows(col.page, col.cycles + 1) :
       LET seen   == SeenAfter(col.seen, rows)
           cycles == col.cycles + 1
           full   == LimitReached(seen, col.limit)
           ends   == full \/ cycles = col.max_scrolls
       IN col' = [col EXCEPT !.seen = seen,
                             !.observed = col.observed \o rows,
                             !.cycles = cycles,
                             !.scrolls = IF full THEN col.scrolls ELSE col.scrolls + 1,
                             !.pc = IF ends THEN "done" ELSE "loop",
                             !.out = IF ends THEN Truncated(seen, col.limit) ELSE <<>>]
  /\ last' = "CollectCycle"
  /\ UNCHANGED <<streamVarsButLast, sessVars, filt, peer, wr, run, act>>

\* ============================================================ the command
\* Endpoint names, four of those _dispatch knows.
Endpoints == { "user_login_v3", "send_tweet_v3", "stream_start", "stream_status" }

\* How _dispatch(args) ends: it returns the handler's data, or raises a
\* CliError, a urllib.error.URLError, or any other Exception. No handler of
\* the file raises URLError itself (the webhook's errors stay in _notify);
\* main handles one that a library lets through.
Outcomes == { "returned", "CliError", "URLError", "Exception" }

\* CommandResult.to_payload: the error field is there when there is an error.
ToPayload(ok, endpoint, data, error) ==
  IF error # ""
    THEN [ok |-> ok, endpoint |-> endpoint, data |-> data, error |-> error]
    ELSE [ok |-> ok, endpoint |-> endpoint, data |-> data]

\* _format_aisa_response, without the echo of the request arguments.
FormatAisaResponse(ok, endpoint, data, error) ==
  IF ~ok
    THEN [error |-> [code |-> "", type |-> "new_api_error",
                     message |-> IF error = "" THEN "Unknown error" ELSE error]]
    ELSE [success |-> TRUE, endpoint |-> endpoint, data |-> data]

\* _render_output: the document for a CommandResult, before json.dumps.
RenderOutput(ok, endpoint, data, error, compat) ==
  IF compat = "aisa" THEN FormatAisaResponse(ok, endpoint, data, error)
  ELSE ToPayload(ok, endpoint, data, error)

\* The error text main gives the CommandResult of each except clause.
ErrorText(raised) ==
  CASE raised = "CliError" -> "message"
    [] raised = "URLError" -> "Network error while sending notification webhook: reason"
    [] OTHER               -> "Unexpected failure: reason"

\* The value main returns from each branch.
ExitCode(raised) ==
  CASE raised = ""         -> 0
    [] raised = "CliError" -> 2
    [] raised = "URLError" -> 3
    [] OTHER               -> 4

NoRun ==
  [pc |-> "idle", endpoint |-> "", compat |-> "none", outcome |-> "", raised |-> "",
   stdout |-> <<>>, stderr |-> <<>>, notified |-> <<>>, exit |-> -1]

\* Line 1899, data = _dispatch(args): the handler runs and returns or raises.
MainDispatch ==
  /\ run.pc = "idle"
  /\ \E endpoint \in Endpoints, compat \in {"none", "aisa"}, outcome \in Outcomes :
       run' = [NoRun EXCEPT !.pc = IF outcome = "returned" THEN "print" ELSE "except",
                            !.endpoint = endpoint,
                            !.compat = compat,
                            !.outcome = outcome,
                            !.raised = IF outcome = "returned" THEN "" ELSE outcome]
  /\ last' = "MainDispatch"
  /\ UNCHANGED <<streamVarsButLast, sessVars, filt, col, peer, wr, act>>

\* Lines 1900-1901, inside the try block: the result is rendered with
\* json.dumps(..., ensure_ascii=False) and printed on standard output. print
\* raises when the stream cannot take the text (a character the encoding of
\* standard output does not have, a closed pipe); nothing is written then and
\* the exception goes to the except clauses.
MainPrint ==
  /\ run.pc = "print"
  /\ \E printed \in BOOLEAN :
       IF printed
         THEN run' = [run EXCEPT !.pc = "notify",
                                 !.stdout = Append(run.stdout,
                                   RenderOutput(TRUE, run.endpoint, "data", "", run.compat))]
         ELSE run' = [run EXCEPT !.pc = "except", !.raised = "Exception"]
  /\ last' = "MainPrint"
  /\ UNCHANGED <<streamVarsButLast, sessVars, filt, col, peer, wr, act>>

\* Lines 1904-1906, 1909-1916, 1919-1926: the except clause of the exception
\* prints the failure document on standard error (which escapes what it
\* cannot encode).
MainExcept ==
  /\ run.pc = "except"
  /\ run' = [run EXCEPT !.pc = "notify",
                        !.stderr = Append(run.stderr,
                          RenderOutput(FALSE, run.endpoint, "empty",
                                       ErrorText(run.raised), run.compat))]
  /\ last' = "MainExcept"
  /\ UNCHANGED <<streamVarsButLast, sessVars, filt, col, peer, wr, act>>

\* Lines 1902-1903, 1907-1908, 1917-1918, 1927-1928: _notify, which swallows
\* the failures of its two channels, and the return of the exit code.
MainNotify ==
  /\ run.pc = "notify"
  /\ \E delivered \in BOOLEAN :
       run' = [run EXCEPT !.pc = "exited",
                          !.notified = IF delivered THEN <<run.raised = "">> ELSE <<>>,
                          !.exit = ExitCode(run.raised)]
  /\ last' = "MainNotify"
  /\ UNCHANGED <<streamVarsButLast, sessVars, filt, col, peer, wr, act>>

MainNext == MainDispatch \/ MainPrint \/ MainExcept \/ MainNotify

\* =================================================== the acting endpoints
\* Endpoints that change something on the site; each checks its arguments,
\* opens a session with _with_page, calls _require_logged_in, acts through
\* the page and closes the session in a finally block.
ActionKinds ==
  { "send_tweet_v3", "upload_media_v2", "like_tweet_v3", "unlike_tweet_v2", "retweet_v3",
    "delete_tweet_v2", "follow_user_v2", "unfollow_user_v2", "send_dm_to_user",
    "update_profile_v3" }

\* driver, browser, context: "none" before it is created, then "open", then
\* "closed". io: the reads and launches done so far, in order.
NoAct ==
  [pc |-> "idle", kind |-> "", io |-> <<>>, jar |-> <<>>,
   driver |-> "none", browser |-> "none", context |-> "none",
   checked |-> "none", acted |-> FALSE, err |-> ""]

\* The first lines of the handler (889-892, 922-925, 1107-1108, ...): a
\* required argument that is missing or empty raises CliError.
ActBegin ==
  /\ act.pc = "idle"
  /\ \E kind \in ActionKinds, argsOk \in BOOLEAN :
       act' = IF ~argsOk
                THEN [NoAct EXCEPT !.pc = "done", !.kind = kind, !.err = "InvalidInput"]
                ELSE [NoAct EXCEPT !.pc = "resolve", !.kind = kind]
  /\ last' = "ActBegin"
  /\ UNCHANGED <<streamVarsButLast, sessVars, filt, col, peer, wr, run>>

\* _with_page, lines 748-774: the cookie sources are read and the session's
\* cookies chosen, or the error is raised before anything is launched.
ActResolve ==
  /\ act.pc = "resolve"
  /\ LET wp == WithPage(browserSrc, cookieFile, TRUE, TRUE, TRUE)
     IN act' = IF wp.opened
                 THEN [act EXCEPT !.pc = "setup", !.jar = wp.cookies,
                                  !.io = Append(act.io, "cookie_sources")]
                 ELSE [act EXCEPT !.pc = "done", !.err = wp.err,
                                  !.io = Append(act.io, "cookie_sources")]
  /\ last' = "ActResolve"
  /\ UNCHANGED <<streamVarsButLast, sessVars, filt, col, peer, wr, run>>

\* _with_page, lines 776-782: sync_playwright().start(), chromium.launch(),
\* new_context(), add_cookies(), new_page(), with no try around them. failAt
\* is the call that raises (0: none); what was created before it stays open,
\* and the handler's try block has not been entered yet.
ActSetup ==
  /\ act.pc = "setup"
  /\ \E failAt \in 0..5 :
       act' = [act EXCEPT
                 !.pc = IF failAt = 0 THEN "check" ELSE "done",
                 !.err = IF failAt = 0 THEN "" ELSE "SetupFailed",
                 !.io = IF failAt = 1 THEN act.io ELSE Append(act.io, "driver"),
                 !.driver = IF failAt = 1 THEN "none" ELSE "open",
                 !.browser = IF failAt \in {1, 2} THEN "none" ELSE "open",
                 !.context = IF failAt \in {1, 2, 3} THEN "none" ELSE "open"]
  /\ last' = "ActSetup"
  /\ UNCHANGED <<streamVarsButLast, sessVars, filt, col, peer, wr, run>>

\* A handler that goes on to its action whatever the check found.
ActCheckIgnored ==
  /\ act.pc = "check"
  /\ \E page \in {"login_url", "marker", "plain"} :
       act' = [act EXCEPT !.pc = "act",
                          !.checked = IF IsLoggedIn(act.jar, page = "login_url", page = "marker")
                                        THEN "ok" ELSE "failed"]
  /\ last' = "ActCheck"
  /\ UNCHANGED <<streamVarsButLast, sessVars, filt, col, peer, wr, run>>

\* _require_logged_in, lines 706-708, first statement of the try block:
\* CliError("Session is not logged in.") unless _is_logged_in(page).
ActCheck ==
  /\ act.pc = "check"
  /\ \E page \in {"login_url", "marker", "plain"} :
       act' = IF IsLoggedIn(act.jar, page = "login_url", page = "marker")
                THEN [act EXCEPT !.pc = "act", !.checked = "ok"]
                ELSE [act EXCEPT !.pc = "close", !.checked = "failed",
                                 !.err = "NotLoggedIn"]
  /\ last' = "ActCheck"
  /\ UNCHANGED <<streamVarsButLast, sessVars, filt, col, peer, wr, run>>

\* The rest of the try block: the clicks and fills of the action, or the
\* CliError of a control that was not found (or of an argument checked here).
ActPerform ==
  /\ act.pc = "act"
  /\ \E found \in BOOLEAN :
       act' = IF found
                THEN [act EXCEPT !.pc = "close", !.acted = TRUE]
                ELSE [act EXCEPT !.pc = "close", !.err = "ControlNotFound"]
  /\ last' = "ActPerform"
  /\ UNCHANGED <<streamVarsButLast, sessVars, filt, col, peer, wr, run>>

\* The finally block (lines 897-900, 941-944, ...): context.close(),
\* browser.close(), p.stop(). failAt is the call that raises (0: none): the
\* calls after it are skipped and its exception replaces the handler's.
ActClose ==
  /\ act.pc = "close"
  /\ \E failAt \in 0..3 :
       act' = [act EXCEPT
                 !.pc = "done",
                 !.err = IF failAt = 0 THEN act.err ELSE "CloseFailed",
                 !.context = IF failAt = 1 THEN "open" ELSE "closed",
                 !.browser = IF failAt \in {1, 2} THEN "open" ELSE "closed",
                 !.driver = IF failAt \in {1, 2, 3} THEN "open" ELSE "closed"]
  /\ last' = "ActClose"
  /\ UNCHANGED <<streamVarsButLast, sessVars, filt, col, peer, wr, run>>

\* The next invocation.
ActReturn ==
  /\ act.pc = "done"
  /\ act' = NoAct
  /\ last' = "ActReturn"
  /\ UNCHANGED <<streamVarsButLast, sessVars, filt, col, peer, wr, run>>

\* ================================================================ the specs
vars == <<procs, pidFile, metaFile, pc, child, stopPid, polls, signals, result, job, last,
          browserSrc, cookieFile, sess, filt, col, peer, wr, run, act>>

Init ==
  /\ StreamInit
  /\ SessInit
  /\ filt = NoFilt
  /\ col = NoCollect
  /\ peer = NoPeer
  /\ wr = NoWrite
  /\ run = NoRun
  /\ act = NoAct

\* The stream supervisor: one controlling command at a time, the subprocess
\* and the rest of the operating system running beside it.
Next == StreamNext

Spec == Init /\ [][Next]_vars

\* A step of a running stream_stop, lines 1625-1636.
StopStep == StopTerm \/ StopPoll \/ StopProbe \/ StopKill \/ StopClear

\* The stream supervisor with a stop that keeps running once invoked: its
\* signals are delivered, its sleeps return and the clock advances. Nothing is
\* assumed of the subprocess, which may ignore the graceful signal for ever.
SpecStopFair == Spec /\ WF_vars(StopStep)

\* The session commands of successive invocations.
SessionNext ==
  \/ SessionCommand
  \/ UserLogin
  \/ BrowserProfileChange

SpecSession == Init /\ [][SessionNext]_vars

\* The three persisted documents written system call by system call while
\* other invocations read them: a start, a login's save, a status and a
\* session command.
WritesNext ==
  \/ StartBegin
  \/ StartPollOpen
  \/ StartMarkerWrite
  \/ StartMetaOpen
  \/ StartMetaWrite
  \/ ConcurrentSubprocessExit
  \/ PeerStatus
  \/ SaveOpen
  \/ SaveWrite
  \/ SessionCommand

SpecWrites == Init /\ [][WritesNext]_vars

\* One invocation of main from dispatch to exit.
SpecMain == Init /\ [][MainNext]_vars

\* Invocations of the acting endpoints and of the login, over the session
\* state the logins leave behind.
CommandNext ==
  \/ ActBegin
  \/ ActResolve
  \/ ActSetup
  \/ ActCheck
  \/ ActPerform
  \/ ActClose
  \/ ActReturn
  \/ UserLogin

SpecCommand == Init /\ [][CommandNext]_vars

\* A filter is about to be applied to a drawn list of candidates.
FilterInit ==
  /\ StreamInit
  /\ SessInit
  /\ col = NoCollect
  /\ peer = NoPeer
  /\ wr = NoWrite
  /\ run = NoRun
  /\ act = NoAct
  /\ filt \in { [path |-> "none", cand |-> c, secondary |-> <<>>, kept |-> <<>>] :
                  c \in SeqsUpTo(FilterUniverse, MaxCand) }

\* Each cookie filter applied once to a drawn list of candidates.
FilterNext ==
  \/ FilterBrowser
  \/ FilterSaved
  \/ FilterSave

SpecFilter == FilterInit /\ [][FilterNext]_vars

\* The merge helper is about to be applied to a drawn pair of lists.
MergeInit ==
  /\ StreamInit
  /\ SessInit
  /\ col = NoCollect
  /\ peer = NoPeer
  /\ wr = NoWrite
  /\ run = NoRun
  /\ act = NoAct
  /\ filt \in { [path |-> "none", cand |-> p, secondary |-> s, kept |-> <<>>] :
                  p \in SeqsUpTo(MergeUniverse, MaxCand),
                  s \in SeqsUpTo(MergeUniverse, MaxCand) }

MergeNext == FilterMerge

SpecMerge == MergeInit /\ [][MergeNext]_vars

\* Two invocations of stream_start running at the same time (the first may
\* be followed by further starts), and the subprocesses beside them.
ConcurrentNext ==
  \/ StartBegin
  \/ StartPoll
  \/ StartWriteMeta
  \/ PeerStartBegin
  \/ PeerStartPoll
  \/ PeerStartWriteMeta
  \/ ConcurrentSubprocessExit

SpecConcurrent == Init /\ [][ConcurrentNext]_vars

\* stream_status over whatever an earlier invocation, a crash or the operator
\* left in the state directory, beside any process table.
ArtifactsInit ==
  /\ SessInit
  /\ filt = NoFilt
  /\ col = NoCollect
  /\ peer = NoPeer
  /\ wr = NoWrite
  /\ run = NoRun
  /\ act = NoAct
  /\ procs \in [PIDs -> {"free", "ffmpeg", "zombie", "other", "foreign"}]
  /\ pidFile \in {Absent, InvalidText} \cup PIDs
  /\ metaFile \in {Absent, InvalidText, NonObject} \cup PIDs
  /\ pc = "idle"
  /\ child = 0
  /\ stopPid = 0
  /\ polls = 0
  /\ signals = <<>>
  /\ result = NoResult
  /\ job = 0
  /\ last = "Init"

ArtifactsNext == StreamStatus

SpecArtifacts == ArtifactsInit /\ [][ArtifactsNext]_vars

\* The stream supervisor started over any persisted state and process table.
SpecAnyState == ArtifactsInit /\ [][StreamNext]_vars

\* Calls of _collect_with_scroll, each over a page that may change as it
\* scrolls.
CollectNext ==
  \/ CollectStart
  \/ CollectAgain
  \/ CollectCycle

SpecCollect == Init /\ [][CollectNext]_vars

\* The loop is sequential code: once started, its next iteration runs.
SpecCollectFair == SpecCollect /\ WF_vars(CollectCycle)

\* ================================================================ claims
LiveSubprocesses == { p \in PIDs : procs[p] = "ffmpeg" }

\* The probe of the recorded pid succeeds: a process the user may signal holds it.
Occupied(pr, pid) == pid \in PIDs /\ pr[pid] \in {"ffmpeg", "zombie", "other"}

\* C1: over any sequence of stream_start, stream_stop and stream_status
\* invocations run one after another, at most one transcoding subprocess
\* launched by the supervisor is alive at every point.
C1_AtMostOneSubprocess == Cardinality(LiveSubprocesses) <= 1

\* A second start was rejected while the subprocess of the first is alive.
C1_Witness ==
  /\ last = "StartBegin"
  /\ result.msg = "AlreadyRunning"
  /\ job # 0
  /\ result.pid = job
  /\ LiveSubprocesses = {job}

\* C2 as stated: stream_start is rejected with AlreadyRunningError exactly
\* when a PID marker exists and the pid it names is alive.
C2_Original ==
  [][(pc = "idle" /\ last' = "StartBegin") =>
       ((result'.msg = "AlreadyRunning") <=> (pidFile \in PIDs /\ procs[pidFile] # "free"))]_vars

\* C2 (amended): a stream_start that finds the ffmpeg executable is rejected
\* with AlreadyRunningError exactly when a PID marker exists and the liveness
\* probe of the pid it names succeeds; the error names that pid, no subprocess
\* is launched and the marker and the metadata record are unchanged. A marker
\* naming a dead process does not block start.
C2_AlreadyRunning ==
  [][(pc = "idle" /\ last' = "StartBegin") =>
       /\ result'.msg # "NoFfmpeg" =>
            ((result'.msg = "AlreadyRunning") <=> (pidFile \in PIDs /\ Occupied(procs, pidFile)))
       /\ result'.msg = "AlreadyRunning" =>
            /\ result'.exit = 2
            /\ result'.pid = pidFile
            /\ procs' = procs
            /\ pidFile' = pidFile
            /\ metaFile' = metaFile
            /\ pc' = "idle"]_vars

\* A start was rejected, naming the pid of the live subprocess the marker records.
C2_Witness ==
  /\ last = "StartBegin"
  /\ result.msg = "AlreadyRunning"
  /\ result.pid = pidFile
  /\ pidFile \in PIDs
  /\ procs[pidFile] = "ffmpeg"
  /\ metaFile = pidFile

\* C3: after a successful stream_start, a stream_status of a later invocation
\* reports running=true with the pid start returned, as long as that
\* subprocess has not exited.
C3_StatusAfterStart ==
  (last = "StreamStatus" /\ job # 0) => (result.exit = 0 /\ result.flag /\ result.pid = job)

\* A status found the subprocess of the last successful start running.
C3_Witness ==
  /\ last = "StreamStatus"
  /\ job # 0
  /\ result.flag
  /\ result.pid = job
  /\ result.meta = job

\* C4 as stated: after a stream_stop invoked while the recorded process is
\* alive (it returned stopped=true, or failed while signalling), the PID
\* marker and the metadata record are absent and status reports running=false.
C4_StopThenStatus ==
  (pc = "idle" /\ result.op = "stop" /\ (result.flag \/ result.msg = "ProcessLookupError")) =>
    /\ pidFile = Absent
    /\ metaFile = Absent
    /\ ~StatusOf(pidFile, metaFile, procs).flag

\* C5: when the PID marker names a process that does not exist, stream_status
\* reports running=false without failing, and stream_stop removes the marker
\* and the metadata record, sends no signal and reports stopped=false.
C5_SelfHealing ==
  [][(pc = "idle" /\ pidFile \in PIDs /\ procs[pidFile] = "free") =>
       /\ last' = "StreamStatus" =>
            (result'.exit = 0 /\ ~result'.flag /\ pidFile' = pidFile /\ metaFile' = metaFile)
       /\ last' = "StopBegin" =>
            /\ pidFile' = Absent
            /\ metaFile' = Absent
            /\ signals' = <<>>
            /\ procs' = procs
            /\ pc' = "idle"
            /\ result'.op = "stop"
            /\ result'.exit = 0
            /\ ~result'.flag]_vars

\* A stop found a stale marker and cleared it.
C5_Witness ==
  /\ last = "StopBegin"
  /\ result.msg = "No running stream process found."
  /\ pidFile = Absent
  /\ metaFile = Absent
  /\ signals = <<>>

C7_LaunchFailed ==
  [][/\ (pc = "idle" /\ last' = "StartBegin") =>
          (pidFile' = pidFile /\ metaFile' = metaFile)
     /\ (pc = "start_grace" /\ last' = "StartPoll") =>
          IF procs[child] # "ffmpeg"
            THEN /\ result'.msg = "LaunchFailed"
                 /\ result'.exit = 2
                 /\ pc' = "idle"
                 /\ pidFile' = pidFile
                 /\ metaFile' = metaFile
            ELSE pc' = "start_meta"
     /\ (pc = "start_meta" /\ last' = "StartWriteMeta") =>
          (result'.op = "start" /\ result'.exit = 0 /\ result'.flag)
     /\ (last' \in {"StartBegin", "StartPoll", "StartWriteMeta"}
           /\ (pidFile' # pidFile \/ metaFile' # metaFile)) =>
          (pc' = "start_meta" \/ (result'.op = "start" /\ result'.flag))]_vars

\* A launch failed while a stale marker of an earlier stream was on disk: the
\* marker and its metadata are still there.
C7_Witness ==
  /\ last = "StartPoll"
  /\ result.msg = "LaunchFailed"
  /\ pidFile \in PIDs
  /\ metaFile = pidFile

\* C8: whenever no stream_start or stream_stop is in progress, the PID marker
\* exists iff the metadata record exists, and then both hold the same pid.
C8_ArtifactsPaired ==
  pc = "idle" =>
    /\ (pidFile = Absent) <=> (metaFile = Absent)
    /\ pidFile # Absent => metaFile = pidFile

\* Both artifacts are on disk after a stop that failed while signalling.
C8_Witness ==
  /\ pc = "idle"
  /\ result.op = "stop"
  /\ result.exit = 4
  /\ pidFile \in PIDs
  /\ metaFile = pidFile

\* C9: after a successful stream_start the exit of the controlling process
\* does not terminate the subprocess: a subprocess stops being alive only by
\* exiting by itself or by the kill of a stream_stop, and between invocations
\* the PID marker names it, so that stream_status finds it.
C9_Detached ==
  [][/\ \A p \in PIDs : (procs[p] = "ffmpeg" /\ procs'[p] # "ffmpeg") =>
          last' \in {"SubprocessExit", "StopKill"}
     /\ (pc' = "idle" /\ job' # 0) =>
          (pidFile' = job' /\ StatusOf(pidFile', metaFile', procs').flag
             /\ StatusOf(pidFile', metaFile', procs').pid = job')]_vars

\* Start has returned (the controller is gone) and its subprocess is alive.
C9_Witness ==
  /\ pc = "idle"
  /\ last = "StartWriteMeta"
  /\ result.flag
  /\ procs[result.pid] = "ffmpeg"
  /\ pidFile = result.pid

\* C10: session resolution never merges: when the browser-profile source
\* yields at least one cookie the session is backed by exactly that fresh set,
\* whatever is persisted; when it fails or yields nothing and a persisted set
\* exists the session is backed by exactly the persisted set.
C10_NoMerge ==
  [][(last' \in {"SessionCommand", "UserLogin"} /\ ~sess'.refresh) =>
       LET fresh == LoadXCookies(browserSrc)
       IN /\ fresh.cookies # <<>> =>
               (sess'.opened /\ sess'.cookies = fresh.cookies)
          /\ (fresh.cookies = <<>> /\ cookieFile.kind = "list" /\ cookieFile.items # <<>>) =>
               (sess'.opened /\ sess'.cookies = cookieFile.items)]_vars

\* A command ran on the fresh set while a different persisted set was on disk.
C10_Witness ==
  /\ last = "SessionCommand"
  /\ sess.opened
  /\ sess.cookies # <<>>
  /\ sess.cookies = LoadXCookies(browserSrc).cookies
  /\ cookieFile.items # <<>>
  /\ \E i \in 1..Len(cookieFile.items) :
       \A k \in 1..Len(sess.cookies) : CookieKey(sess.cookies[k]) # CookieKey(cookieFile.items[i])

\* ---------------------------------------------------------------------- C11
\* C11: on each of the three paths (browser profile, saved document, live jar)
\* a candidate record is retained if and only if its domain contains x.com or
\* twitter.com and its name and its value are both non-empty: what a filter
\* keeps is exactly the candidates that meet the criterion, each once, in
\* their order (a record is identified by its domain, name and value).
C11_RetainedIffCriterion ==
  LET Identity(q) == [i \in 1..Len(q) |-> <<q[i].domain, q[i].name, q[i].value>>]
      Criterion(c) ==
        /\ \E host \in X_HOSTS : Contains(c.domain, host)
        /\ c.name # ""
        /\ c.value # ""
  IN filt.path \in {"browser", "saved", "save"}
       => Identity(filt.kept) = Identity(SelectSeq(filt.cand, Criterion))

\* The saved document held a record with an empty value next to one whose
\* domain holds x.com inside a longer name; only the second was kept.
C11_Witness ==
  /\ filt.path = "saved"
  /\ Len(filt.cand) = 2
  /\ filt.cand[1].value = ""
  /\ filt.cand[2].domain = <<"netfli", "x", ".com">>
  /\ Len(filt.kept) = 1
  /\ filt.kept[1] = filt.cand[2]

\* ---------------------------------------------------------------------- C12
\* C12 as stated: every login that ends logged in has overwritten the saved
\* document with the filtered live jar of its session: the document holds
\* exactly the records of the jar that pass the filter, in the jar's order, and
\* so nothing that was only in the document before.
C12_LoggedInOverwrites ==
  (last = "UserLogin" /\ sess.cmd = "login" /\ sess.logged_in) =>
    /\ cookieFile.kind = "list"
    /\ cookieFile.items =
         SelectSeq(sess.jar, LAMBDA c :
           (\E host \in X_HOSTS : Contains(c.domain, host)) /\ c.name # "" /\ c.value # "")

\* ---------------------------------------------------------------------- C13
\* C13 as stated: when a command that requires a session finds no record in
\* the browser profile and none in the saved document, it fails with the
\* no-session error (the source's "no cookies found" counted as one) and no
\* browser is launched; a login in the same situation opens its session with
\* no cookie.
C13_Original ==
  [][LET usable(c) == (\E host \in X_HOSTS : Contains(c.domain, host))
                        /\ c.name # "" /\ c.value # ""
         noRecord  == /\ browserSrc.status # "ok"
                         \/ \A i \in 1..Len(browserSrc.jar) : ~usable(browserSrc.jar[i])
                      /\ cookieFile.kind # "list"
                         \/ \A i \in 1..Len(cookieFile.items) : ~usable(cookieFile.items[i])
     IN noRecord =>
          /\ last' = "SessionCommand" =>
                (~sess'.opened /\ sess'.err \in {"NoSession", "NoCookies"})
          /\ last' = "UserLogin" => (sess'.opened /\ sess'.cookies = <<>>)]_vars

\* C13: when a command that requires a session finds no record in the browser
\* profile and none in the saved document, it fails before any browser is
\* launched, with the error the browser source raised: the profile-resolution
\* error, the load failure, or "no cookies found"; a login in the same
\* situation opens its session with no cookie.
C13_NoRecordNoSession ==
  [][LET usable(c) == (\E host \in X_HOSTS : Contains(c.domain, host))
                        /\ c.name # "" /\ c.value # ""
         noRecord  == /\ browserSrc.status # "ok"
                         \/ \A i \in 1..Len(browserSrc.jar) : ~usable(browserSrc.jar[i])
                      /\ cookieFile.kind # "list"
                         \/ \A i \in 1..Len(cookieFile.items) : ~usable(cookieFile.items[i])
     IN noRecord =>
          /\ last' = "SessionCommand" =>
                /\ ~sess'.opened
                /\ sess'.cookies = <<>>
                /\ sess'.err = CASE browserSrc.status = "no_db"     -> "ProfileResolution"
                                 [] browserSrc.status = "load_fail" -> "LoadFailed"
                                 [] OTHER                           -> "NoCookies"
          /\ last' = "UserLogin" => (sess'.opened /\ sess'.cookies = <<>>)]_vars

\* A command found an empty saved document and a profile without a cookie
\* database, and failed without a browser.
C13_Witness ==
  /\ last = "SessionCommand"
  /\ browserSrc.status = "no_db"
  /\ cookieFile = [kind |-> "list", items |-> <<>>]
  /\ ~sess.opened
  /\ sess.err = "ProfileResolution"

\* ---------------------------------------------------------------------- C14
\* C14 as stated: whenever the configured profile path holds no cookie
\* database, a command that needs a session fails with the profile-resolution
\* error, whatever the saved document holds.
C14_Original ==
  [][(browserSrc.status = "no_db" /\ last' = "SessionCommand") =>
       (~sess'.opened /\ sess'.err = "ProfileResolution")]_vars

\* C14: when the configured profile path holds no cookie database, a command
\* that needs a session fails with the profile-resolution error exactly when
\* the saved document yields no record; when it yields records the command
\* runs on exactly those, and a login opens its session without that error.
C14_ProfileResolution ==
  [][browserSrc.status = "no_db" =>
       /\ last' = "SessionCommand" =>
             IF cookieFile.kind = "list" /\ cookieFile.items # <<>>
               THEN sess'.opened /\ sess'.err = "" /\ sess'.cookies = cookieFile.items
               ELSE ~sess'.opened /\ sess'.err = "ProfileResolution"
       /\ last' = "UserLogin" =>
             (sess'.opened /\ sess'.err # "ProfileResolution")]_vars

\* A command ran on the saved cookies although the profile path holds no
\* cookie database.
C14_Witness ==
  /\ last = "SessionCommand"
  /\ browserSrc.status = "no_db"
  /\ cookieFile.kind = "list"
  /\ cookieFile.items # <<>>
  /\ sess.opened
  /\ sess.cookies = cookieFile.items

\* ---------------------------------------------------------------------- C15
\* C15: a login invoked with refresh reads neither the browser profile nor the
\* saved document: whatever the two hold, its session is opened with no
\* cookie and with no error of either source.
C15_RefreshStartsEmpty ==
  [][(last' = "UserLogin" /\ sess'.refresh) =>
       /\ sess'.opened
       /\ sess'.cookies = <<>>
       /\ sess'.err \notin {"ProfileResolution", "LoadFailed", "NoCookies", "NoSession"}]_vars

\* A refresh login started with no cookie although the browser profile and
\* the saved document both held a usable one; it did not end logged in, so
\* the saved document is the one it found.
C15_Witness ==
  /\ last = "UserLogin"
  /\ sess.refresh
  /\ ~sess.logged_in
  /\ sess.cookies = <<>>
  /\ browserSrc.status = "ok"
  /\ LoadXCookies(browserSrc).cookies # <<>>
  /\ LoadSavedSessionCookies(cookieFile) # <<>>

\* ---------------------------------------------------------------------- C16
\* C16: the saved document is modified only by a login that ends logged in: a
\* login that ends not logged in (pending verification, rejected credentials,
\* needs_credentials, a raised error) and every other endpoint leave it as it
\* was.
C16_OnlyLoggedInLoginWrites ==
  [][cookieFile' # cookieFile => (last' = "UserLogin" /\ sess'.cmd = "login" /\ sess'.logged_in)]_vars

\* A login with rejected credentials ended while the saved document held the
\* cookies of an earlier login.
C16_Witness ==
  /\ last = "UserLogin"
  /\ ~sess.logged_in
  /\ sess.err = ""
  /\ sess.jar # <<>>
  /\ cookieFile.kind = "list"
  /\ cookieFile.items # <<>>

\* ---------------------------------------------------------------------- C17
\* C17: once a login has written the saved document, a later command whose
\* browser source fails or yields no record resolves exactly the records of
\* the document, in the document's order: the filter applied on loading drops
\* none of them and adds none (a command that needs a session fails when the
\* document holds no record at all).
C17_PersistThenResolve ==
  [][LET usable(c) == (\E host \in X_HOSTS : Contains(c.domain, host))
                        /\ c.name # "" /\ c.value # ""
         nothing   == \/ browserSrc.status # "ok"
                      \/ \A i \in 1..Len(browserSrc.jar) : ~usable(browserSrc.jar[i])
     IN (cookieFile.kind = "list" /\ nothing) =>
          /\ (last' = "SessionCommand" \/ (last' = "UserLogin" /\ ~sess'.refresh)) =>
                sess'.cookies = cookieFile.items
          /\ last' = "SessionCommand" => (sess'.opened <=> cookieFile.items # <<>>)]_vars

\* A command whose browser source failed to load ran on the two cookies an
\* earlier login had saved.
C17_Witness ==
  /\ last = "SessionCommand"
  /\ browserSrc.status = "load_fail"
  /\ cookieFile.kind = "list"
  /\ Len(cookieFile.items) = 2
  /\ sess.opened
  /\ sess.cookies = cookieFile.items

\* ---------------------------------------------------------------------- C18
\* C18: the result of a finished run is the sequence of the rows with distinct
\* (non-empty) keys observed over the executed cycles, in the order of their
\* first observation, cut to limit: it has min(limit, number of distinct keys
\* observed) rows, no two of them with the same key, and never more than
\* limit.
C18_ResultIsFirstSeenPrefix ==
  LET keyed  == SelectSeq(col.observed, LAMBDA r : KeyOf(r) # "")
      keys   == { KeyOf(keyed[i]) : i \in 1..Len(keyed) }
      tagged == [i \in 1..Len(keyed) |-> [at |-> i, row |-> keyed[i]]]
      firsts == SelectSeq(tagged, LAMBDA t :
                  \A j \in 1..(t.at - 1) : KeyOf(keyed[j]) # KeyOf(t.row))
  IN col.pc = "done" =>
       /\ Len(col.out) = Min(col.limit, Cardinality(keys))
       /\ Len(col.out) <= col.limit
       /\ \A i, j \in 1..Len(col.out) : i # j => KeyOf(col.out[i]) # KeyOf(col.out[j])
       /\ \A k \in 1..Len(col.out) : col.out[k] = firsts[k].row

\* A run with limit 2 ended after two cycles that showed three distinct keys,
\* one of them twice: it returned the first two.
C18_Witness ==
  /\ col.pc = "done"
  /\ col.limit = 2
  /\ col.cycles = 2
  /\ Cardinality({ KeyOf(col.observed[i]) : i \in 1..Len(col.observed) } \ {""}) = 3
  /\ Len(col.observed) = 4
  /\ Len(col.out) = 2

\* ---------------------------------------------------------------------- C19
\* C19: first occurrence wins: a cycle never replaces or moves a row already
\* accumulated, and each returned row is the first row observed with its key,
\* whether the other rows with that key came in the same cycle or a later one.
C19_FirstOccurrenceWins ==
  [][last' = "CollectCycle" =>
       /\ Len(col'.seen) >= Len(col.seen)
       /\ \A i \in 1..Len(col.seen) : col'.seen[i] = col.seen[i]
       /\ col'.pc = "done" =>
             \A k \in 1..Len(col'.out) :
               LET at == { j \in 1..Len(col'.observed) :
                             KeyOf(col'.observed[j]) = KeyOf(col'.out[k]) }
               IN \E j \in at : /\ \A m \in at : j <= m
                                 /\ col'.out[k] = col'.observed[j]]_vars

\* A finished run observed key "a" with payload 1 and later with payload 2,
\* and returned the row with payload 1.
C19_Witness ==
  /\ col.pc = "done"
  /\ col.cycles >= 2
  /\ \E i, j \in 1..Len(col.observed) :
       /\ i < j
       /\ col.observed[i] = Row("a", 1)
       /\ col.observed[j] = Row("a", 2)
  /\ \E k \in 1..Len(col.out) : col.out[k] = Row("a", 1)

\* ---------------------------------------------------------------------- C20
\* C20: the loop tests for termination after the insertions of each cycle, the
\* limit first: a cycle starts only while fewer than limit rows are
\* accumulated, a cycle that brings the accumulated rows to limit or more ends
\* the run at once (no scroll, no further extraction), the extractor is
\* invoked at most max_scrolls times, and every started run finishes.
C20_TerminatesLimitFirst ==
  /\ [][last' = "CollectCycle" =>
          /\ Len(col.seen) < col.limit
          /\ col'.cycles = col.cycles + 1
          /\ col'.cycles <= col.max_scrolls
          /\ Len(col'.seen) >= col.limit =>
                (col'.pc = "done" /\ col'.scrolls = col.scrolls)
          /\ col'.cycles = col.max_scrolls => col'.pc = "done"]_vars
  /\ [](col.pc = "done" => col.cycles <= col.max_scrolls)
  /\ (col.pc = "loop" ~> col.pc = "done")

\* A run reached its limit in the second of three allowed cycles and ended
\* there.
C20_Witness ==
  /\ col.pc = "done"
  /\ col.max_scrolls = 3
  /\ col.cycles = 2
  /\ col.limit = 2
  /\ Len(col.seen) >= 2
  /\ col.scrolls = 1

\* ---------------------------------------------------------------------- C21
\* C21: over a page that shows k rows with new keys at every cycle, a call
\* with limit L and max_scrolls of at least ceil(L/k) ends after exactly
\* ceil(L/k) cycles and returns exactly L rows, the first L the page showed.
C21_LimitEnforcement ==
  LET L    == col.limit
      k    == col.page.k
      need == (L + k - 1) \div k
  IN (col.pc = "done" /\ col.page.kind = "growing" /\ col.max_scrolls >= need) =>
       /\ col.cycles = need
       /\ Len(col.out) = L
       /\ \A i \in 1..L : KeyOf(col.out[i]) = ToString(i)

\* Two new rows per cycle and limit 3: the call ended after 2 cycles with 4
\* rows accumulated and returned 3.
C21_Witness ==
  /\ col.pc = "done"
  /\ col.page.kind = "growing"
  /\ col.page.k = 2
  /\ col.limit = 3
  /\ col.max_scrolls = 3
  /\ col.cycles = 2
  /\ Len(col.seen) = 4
  /\ Len(col.out) = 3

\* ---------------------------------------------------------------------- C22
\* C22: over a static page whose view holds n rows with distinct keys, n below
\* limit, a call returns normally with exactly those n rows, each the first
\* row of the view with its key, in the order of the view, after no more than
\* max_scrolls cycles.
C22_PartialSuccess ==
  LET view   == col.page.view
      keyed  == SelectSeq(view, LAMBDA r : KeyOf(r) # "")
      tagged == [i \in 1..Len(keyed) |-> [at |-> i, row |-> keyed[i]]]
      firsts == SelectSeq(tagged, LAMBDA t :
                  \A j \in 1..(t.at - 1) : KeyOf(keyed[j]) # KeyOf(t.row))
  IN (col.page.kind = "static" /\ col.pc \in {"loop", "done"} /\ Len(firsts) < col.limit) =>
       /\ col.cycles <= col.max_scrolls
       /\ col.pc = "loop" => col.cycles < col.max_scrolls
       /\ col.pc = "done" =>
             /\ Len(col.out) = Len(firsts)
             /\ \A i \in 1..Len(firsts) : col.out[i] = firsts[i].row

\* A static view of three keyed rows and limit 4: the call used its three
\* cycles and returned the three rows.
C22_Witness ==
  /\ col.pc = "done"
  /\ col.page.kind = "static"
  /\ Len(col.page.view) = 3
  /\ col.limit = 4
  /\ col.max_scrolls = 3
  /\ col.cycles = 3
  /\ col.out = col.page.view

\* ---------------------------------------------------------------------- C23
\* C23 as stated: the view is advanced (scroll and pause) only after a cycle
\* that is followed by another cycle, so a finished run has made exactly one
\* advance less than it made extractions, whether it ended on the limit or on
\* max_scrolls.
C23_AdvanceOnlyBetweenCycles ==
  col.pc = "done" => col.scrolls = col.cycles - 1

\* ---------------------------------------------------------------------- C24
\* C24: over a page that does not change, a call repeated with the same limit
\* and max_scrolls returns the same rows in the same order; every call starts
\* from an empty mapping, so whatever the page does, each row a call returns
\* was observed by that call, and a key the call before had seen is returned
\* again when this call observes it within its limit.
C24_Determinism ==
  /\ last = "CollectAgain" => (col.seen = <<>> /\ col.observed = <<>>)
  /\ (col.pc = "done" /\ col.again) =>
        /\ col.page.kind = "static" => col.out = col.prev
        /\ \A k \in 1..Len(col.out) :
              \E j \in 1..Len(col.observed) : col.out[k] = col.observed[j]
        /\ Len(col.out) < col.limit =>
              \A j \in 1..Len(col.observed) :
                KeyOf(col.observed[j]) # "" =>
                  \E k \in 1..Len(col.out) : KeyOf(col.out[k]) = KeyOf(col.observed[j])

\* A call repeated over a static view of three rows with limit 2 returned the
\* same two rows as the call before it.
C24_Witness ==
  /\ col.pc = "done"
  /\ col.again
  /\ col.page.kind = "static"
  /\ Len(col.page.view) = 3
  /\ col.limit = 2
  /\ Len(col.out) = 2
  /\ col.out = col.prev

\* ---------------------------------------------------------------------- C25
\* C25: a row whose key is missing or empty is never accumulated and never
\* returned, and never counts toward the limit: the mapping holds one row per
\* distinct non-empty key observed, and a run that ends before max_scrolls
\* has observed at least limit distinct non-empty keys.
C25_KeylessRowsDiscarded ==
  LET keys == { KeyOf(col.observed[j]) : j \in 1..Len(col.observed) } \ {""}
  IN /\ \A i \in 1..Len(col.seen) : "key" \in DOMAIN col.seen[i] /\ col.seen[i].key # ""
     /\ \A i \in 1..Len(col.out) : "key" \in DOMAIN col.out[i] /\ col.out[i].key # ""
     /\ Len(col.seen) = Cardinality(keys)
     /\ (col.pc = "done" /\ col.cycles < col.max_scrolls) => Cardinality(keys) >= col.limit

\* A run with limit 2 observed a row without a key and a row with an empty
\* key, went on after each of them and returned two keyed rows.
C25_Witness ==
  /\ col.pc = "done"
  /\ col.limit = 2
  /\ col.cycles = 2
  /\ \E j \in 1..Len(col.observed) : "key" \notin DOMAIN col.observed[j]
  /\ \E j \in 1..Len(col.observed) : col.observed[j] = Row("", 1)
  /\ Len(col.observed) = 4
  /\ Len(col.out) = 2

\* ---------------------------------------------------------------------- C26
\* C26: stream_status never fails because of the metadata record: with a PID
\* marker that names a pid, a missing, unparsable or non-object metadata file
\* gives the empty metadata object (0) and a well-formed one is passed on,
\* and the running flag is the result of the liveness probe of the marker's
\* pid whatever the metadata file holds.
C26_MetadataBestEffort ==
  last = "StreamStatus" =>
    /\ result.exit = 0
    /\ pidFile \in PIDs =>
          /\ result.flag = (procs[pidFile] \in {"ffmpeg", "zombie", "other"})
          /\ result.pid = pidFile
          /\ result.meta = IF metaFile \in {Absent, InvalidText, NonObject} THEN 0 ELSE metaFile

\* A status found a live process under the marker and unparsable metadata: it
\* reported running with empty metadata.
C26_Witness ==
  /\ last = "StreamStatus"
  /\ pidFile \in PIDs
  /\ metaFile = InvalidText
  /\ procs[pidFile] = "ffmpeg"
  /\ result.exit = 0
  /\ result.flag
  /\ result.meta = 0

\* ---------------------------------------------------------------------- C27
\* C27: the already-running check and the marker write are not atomic. While
\* every live subprocess is either named by the marker or held by an
\* invocation between its launch and its marker write, a start launches a
\* subprocess beside a live one only if that one belongs to the other
\* invocation, which is in that window, so that the marker does not name it;
\* the witness is the outcome: both starts succeeded, two subprocesses are
\* alive and the marker names one of them.
C27_SecondLaunchInWindow ==
  [][LET live     == { q \in PIDs : procs[q] = "ffmpeg" }
         launched == { p \in PIDs : procs[p] # "ffmpeg" /\ procs'[p] = "ffmpeg" }
         noOrphan == \A q \in live :
                       \/ q = pidFile
                       \/ (q = child /\ pc = "start_grace")
                       \/ (q = peer.child /\ peer.pc = "start_grace")
     IN (noOrphan /\ last' \in {"StartBegin", "PeerStartBegin"} /\ launched # {}) =>
          \A q \in live :
            /\ pidFile # q
            /\ \/ last' = "StartBegin" /\ peer.pc = "start_grace" /\ peer.child = q
               \/ last' = "PeerStartBegin" /\ pc = "start_grace" /\ child = q]_vars

\* Two concurrent starts both reported started=true; their two subprocesses
\* are alive and the marker names only the second invocation's.
C27_Witness ==
  /\ pc = "idle"
  /\ peer.pc = "done"
  /\ result.op = "start" /\ result.exit = 0 /\ result.flag
  /\ peer.result.exit = 0 /\ peer.result.flag
  /\ result.pid # peer.result.pid
  /\ procs[result.pid] = "ffmpeg"
  /\ procs[peer.result.pid] = "ffmpeg"
  /\ pidFile = peer.result.pid
  /\ metaFile = result.pid

\* ---------------------------------------------------------------------- C28
\* C28: every write of the saved-session document, the PID marker and the
\* metadata record replaces the whole document: whenever a concurrently
\* running invocation reads one of them (a status reads the marker and, with
\* a marker that parses, the metadata; a session command reads the saved
\* session), it finds the complete old or the complete new document, never
\* an empty one.
C28_WholeDocumentReplacement ==
  [][/\ last' = "PeerStatus" =>
          /\ pidFile # EmptyText
          /\ pidFile \in PIDs => metaFile # EmptyText
     /\ last' = "SessionCommand" => cookieFile # EmptyDocument]_vars

\* ---------------------------------------------------------------------- C29
\* C29: a stream_stop that has passed its liveness check always ends: the
\* polling after the graceful signal is bounded by the budget, and when the
\* budget is spent stop goes on to the probe and the forceful kill instead of
\* waiting, also for a process that never reacts to the graceful signal.
C29_StopAlwaysEnds ==
  (pc \in {"stop_term", "stop_poll", "stop_probe", "stop_kill", "stop_clear"}) ~> (pc = "idle")

\* A stop whose target ignored SIGTERM for the whole budget: it polled
\* MaxPolls times, sent SIGKILL and returned stopped=true.
C29_Witness ==
  /\ pc = "idle"
  /\ result.op = "stop"
  /\ result.exit = 0
  /\ result.flag
  /\ polls = MaxPolls
  /\ Len(signals) = 2
  /\ signals[1].sig = "SIGTERM"
  /\ signals[2].sig = "SIGKILL"
  /\ signals[2].pid = signals[1].pid

\* ---------------------------------------------------------------------- C30
\* C30: an invocation that reached dispatch and has exited emitted exactly
\* one document and the exit code that goes with it: exit 0 with the
\* document on standard output exactly when the handler returned normally;
\* exit 2 after a CliError, 3 after a URLError, 4 after any other exception,
\* each with a failure document on standard error and nothing on standard
\* output.
C30_OneDocumentMatchingExit ==
  run.pc = "exited" =>
    /\ Len(run.stdout) + Len(run.stderr) = 1
    /\ run.exit = 0 <=> run.outcome = "returned"
    /\ run.exit = 0 => (Len(run.stdout) = 1 /\ "error" \notin DOMAIN run.stdout[1])
    /\ run.outcome = "CliError" => run.exit = 2
    /\ run.outcome = "URLError" => run.exit = 3
    /\ run.outcome = "Exception" => run.exit = 4
    /\ run.exit # 0 => /\ run.stdout = <<>>
                       /\ Len(run.stderr) = 1
                       /\ "error" \in DOMAIN run.stderr[1]

\* ---------------------------------------------------------------------- C33
\* C33: a stream_stop that found the recorded process alive completes for
\* every interleaving with the subprocess's own exit: whenever it ends, also
\* when the subprocess exited between a liveness probe and the signal that
\* follows it, it ends with a structured result that is not an unexpected
\* failure and with the PID marker and the metadata record removed.
C33_StopSurvivesExitRace ==
  [][(pc \in {"stop_term", "stop_poll", "stop_probe", "stop_kill", "stop_clear"} /\ pc' = "idle") =>
       /\ result'.op = "stop"
       /\ result'.exit = 0
       /\ pidFile' = Absent
       /\ metaFile' = Absent]_vars

\* ---------------------------------------------------------------------- C34
\* C34: stream_stop signals only the subprocess that the recorded stream_start
\* launched, whatever the operating system did with the pid since, and
\* stream_status reports running=true only for a pid that still belongs to
\* that subprocess.
C34_OnlyOwnSubprocessSignalled ==
  /\ \A i \in 1..Len(signals) : signals[i].to = "ffmpeg" /\ signals[i].job
  /\ (last = "StreamStatus" /\ result.flag) =>
       (result.pid = job /\ procs[result.pid] = "ffmpeg")

\* ---------------------------------------------------------------------- C35
\* C35: stream_status is read-only: over every persisted state (no marker, a
\* live, stale or corrupt marker, any metadata) it leaves the PID marker, the
\* metadata record and the process table as they are and sends no signal; an
\* existing marker changes only when a stop removes it or a start that passed
\* its checks and its grace period writes its own pid over it.
C35_StatusReadOnly ==
  [][/\ last' = "StreamStatus" =>
          /\ UNCHANGED <<pidFile, metaFile, procs, signals, job>>
          /\ result'.op = "status"
     /\ (pidFile # Absent /\ pidFile' # pidFile) =>
          \/ last' \in {"StopBegin", "StopClear"} /\ pidFile' = Absent
          \/ last' = "StartPoll" /\ pidFile' = child /\ pc' = "start_meta"]_vars

\* A status over a stale marker: it reported running=false and the marker and
\* the metadata are still there.
C35_Witness ==
  /\ last = "StreamStatus"
  /\ result.op = "status"
  /\ ~result.flag
  /\ pidFile \in PIDs
  /\ procs[pidFile] = "free"
  /\ metaFile # Absent

\* ---------------------------------------------------------------------- C36
\* C36: a PID marker that does not hold an integer is tolerated by every
\* supervisor operation: stream_status reports running=false without
\* failing, stream_start is not refused as already running, and stream_stop
\* neither ends in an unexpected failure nor leaves the marker in place.
C36_InvalidMarkerTolerated ==
  [][pidFile = InvalidText =>
       /\ last' = "StreamStatus" => (result'.exit = 0 /\ ~result'.flag)
       /\ last' = "StartBegin" => result'.msg # "AlreadyRunning"
       /\ last' = "StopBegin" => (result'.exit # 4 /\ pidFile' # InvalidText)]_vars

\* ---------------------------------------------------------------------- C32
\* The lifecycle state is read off the program: "starting" while a start is
\* between its launch and its return, "stopping" while a stop is between its
\* liveness check and its return, otherwise "running" when status would
\* report running=true and "idle" when it would not.
\*
\* C32 as stated: over start, stop, status and subprocess exit the lifecycle
\* moves only along idle -> starting -> running -> stopping -> idle, and
\* without persisted artifacts and without a command in progress it is idle.
C32_Original ==
  [][LET lifecycle(c, pf, mf, pr) ==
           IF c \in {"start_grace", "start_meta"} THEN "starting"
           ELSE IF c # "idle" THEN "stopping"
           ELSE IF StatusOf(pf, mf, pr).flag THEN "running" ELSE "idle"
         from == lifecycle(pc, pidFile, metaFile, procs)
         to   == lifecycle(pc', pidFile', metaFile', procs')
     IN /\ (last' \notin {"PidReuse", "OtherExit"} /\ from # to) =>
             <<from, to>> \in { <<"idle", "starting">>, <<"starting", "running">>,
                                <<"running", "stopping">>, <<"stopping", "idle">> }
        /\ (pc' = "idle" /\ pidFile' = Absent /\ metaFile' = Absent) => to = "idle"]_vars

\* C32, amended: besides idle -> starting -> running -> stopping -> idle the
\* lifecycle goes from starting to idle when the subprocess exits before the
\* start returns, and from running to idle when the subprocess exits by
\* itself; no other transition occurs over start, stop, status and subprocess
\* exit, and without persisted artifacts and without a command in progress
\* the lifecycle is idle.
C32_Lifecycle ==
  [][LET lifecycle(c, pf, mf, pr) ==
           IF c \in {"start_grace", "start_meta"} THEN "starting"
           ELSE IF c # "idle" THEN "stopping"
           ELSE IF StatusOf(pf, mf, pr).flag THEN "running" ELSE "idle"
         from == lifecycle(pc, pidFile, metaFile, procs)
         to   == lifecycle(pc', pidFile', metaFile', procs')
     IN /\ (last' \notin {"PidReuse", "OtherExit"} /\ from # to) =>
             \/ <<from, to>> \in { <<"idle", "starting">>, <<"starting", "running">>,
                                   <<"running", "stopping">>, <<"stopping", "idle">> }
             \/ /\ <<from, to>> = <<"starting", "idle">>
                /\ last' \in {"StartPoll", "StartWriteMeta"}
                /\ procs[child] = "zombie"
             \/ /\ <<from, to>> = <<"running", "idle">>
                /\ last' = "SubprocessExit"
        /\ (pc' = "idle" /\ pidFile' = Absent /\ metaFile' = Absent) => to = "idle"]_vars

\* A start has just failed because its subprocess exited within the grace
\* period: the lifecycle went from starting back to idle.
C32_Witness ==
  /\ last = "StartPoll"
  /\ pc = "idle"
  /\ result.op = "start"
  /\ result.msg = "LaunchFailed"
  /\ ~StatusOf(pidFile, metaFile, procs).flag

\* ---------------------------------------------------------------------- C39
\* C39: the merge returns at most one record per (domain, name, path) key, a
\* missing path counting as "/"; every record it returns is one of the input
\* records with a domain and a name, and every such input key is returned:
\* with the last record listed under it in the primary list when the primary
\* list has the key, else with the last one listed under it in the secondary
\* list. Merging the primary list with itself gives the keys of merging it
\* with the empty list.
C39_MergeByKey ==
  LET out   == filt.kept
      valid(c) == c.domain # <<>> /\ c.name # ""
      lastOf(list, k) ==
        LET at == { i \in 1..Len(list) : valid(list[i]) /\ CookieKey(list[i]) = k }
        IN list[CHOOSE i \in at : \A j \in at : j <= i]
      has(list, k) == \E i \in 1..Len(list) : valid(list[i]) /\ CookieKey(list[i]) = k
      keys(list) == { CookieKey(list[i]) : i \in 1..Len(list) }
  IN filt.path = "merge" =>
       /\ \A i, j \in 1..Len(out) : CookieKey(out[i]) = CookieKey(out[j]) => i = j
       /\ \A i \in 1..Len(out) :
            /\ valid(out[i])
            /\ out[i] = IF has(filt.cand, CookieKey(out[i]))
                          THEN lastOf(filt.cand, CookieKey(out[i]))
                          ELSE lastOf(filt.secondary, CookieKey(out[i]))
            /\ has(filt.cand, CookieKey(out[i])) \/ has(filt.secondary, CookieKey(out[i]))
       /\ \A list \in {filt.cand, filt.secondary} : \A i \in 1..Len(list) :
            valid(list[i]) => CookieKey(list[i]) \in keys(out)
       /\ keys(MergeCookieSets(filt.cand, filt.cand)) = keys(MergeCookieSets(filt.cand, <<>>))

\* A key held by both lists with different values, listed twice in the
\* primary list: the merge returned the primary list's later record.
C39_Witness ==
  /\ filt.path = "merge"
  /\ Len(filt.cand) = 2
  /\ Len(filt.secondary) = 1
  /\ filt.cand[1].path = ""
  /\ filt.cand[2].path = "/"
  /\ CookieKey(filt.cand[1]) = CookieKey(filt.cand[2])
  /\ filt.secondary[1] = filt.cand[1]
  /\ filt.kept = << filt.cand[2] >>

\* ---------------------------------------------------------------------- C37
\* C37: an acting endpoint touches the site only after the logged-in check of
\* the same invocation succeeded; a check that fails raises the not-logged-in
\* error, the action is skipped and the command ends as a failure.
C37_ActionOnlyAfterCheck ==
  [][/\ (act'.acted /\ ~act.acted) =>
          (last' = "ActPerform" /\ act.checked = "ok" /\ act'.kind = act.kind)
     /\ (last' = "ActCheck" /\ act'.checked = "failed") =>
          (act'.err = "NotLoggedIn" /\ act'.pc = "close")
     /\ act'.checked = "failed" => (~act'.acted /\ act'.err # "")
     /\ act'.checked = "none" => ~act'.acted]_vars

\* The check failed over a session that had cookies: the command ended with
\* the not-logged-in error, nothing was done and the session was closed.
C37_Witness ==
  /\ act.pc = "done"
  /\ act.checked = "failed"
  /\ act.err = "NotLoggedIn"
  /\ ~act.acted
  /\ act.jar # <<>>
  /\ act.context = "closed"

\* ---------------------------------------------------------------------- C38
\* C38: when a command has ended, the automation driver, the browser and the
\* context it opened are closed, on the success path and on every failure
\* path, also when the failure was raised while the session was set up.
C38_SessionClosedOnEveryPath ==
  act.pc = "done" =>
    /\ act.driver # "open"
    /\ act.browser # "open"
    /\ act.context # "open"

\* ---------------------------------------------------------------------- C31
\* C31: a command rejected for a missing or empty argument has done no I/O by
\* then: it has read no cookie source and no persisted state and has opened
\* no browser session.
C31_RejectedBeforeIO ==
  /\ act.err = "InvalidInput" =>
       (act.io = <<>> /\ act.driver = "none" /\ act.browser = "none")
  /\ (sess.cmd = "login" /\ sess.err = "RefreshNeedsCredentials") => ~sess.opened

====
